---------------------------- MODULE Spec2Model ----------------------------
(***************************************************************************)
(* Model of the ERCOT energy price predictor: the Phase 1 pipeline         *)
(* (eepp_phase_1.py: forecast bundle), the Phase 2 pipeline                *)
(* (eepp_phase_2.py: day-ahead / real-time prices) and the service loop    *)
(* that starts them (eepp_service.py).                                     *)
(*                                                                         *)
(* Text is modelled as a sequence of one-character strings, so that the    *)
(* string conversions of the scripts (astype(str), str.split, astype(int), *)
(* pd.to_datetime) are computed rather than assumed.  Numbers are integers *)
(* (the floating point rounding of pandas is not modelled).                *)
(***************************************************************************)
EXTENDS Integers, Sequences, FiniteSets, TLC

VARIABLES
    nIn,        \* TimeNormalizer check: the raw (date, hour-ending) cell under conversion
    nOut,       \* TimeNormalizer check: what each script's conversion made of it
    phase,      \* the script the service is running: 0 none, 1 Phase 1, 2 Phase 2
    pc,         \* the position of main() in the running script
    exc,        \* the exception raised in main(), "" when none
    SLACK_TOKEN,\* whether the environment sets SLACK_TOKEN
    driver,     \* the browser session: "none", "open", "closed"
    quits,      \* how many times driver.quit() ran in this run
    fi,         \* index of the next process_file call of main()
    visits,     \* the process_file calls so far: report and session state at the call
    paths,      \* report -> the file process_file returned for it (NoFile: none yet)
    production, \* what this run wrote into PRODUCTION_DIR
    slack,      \* send_slack_notification: "none", "skipped", "sent", "error"
    df_solar, df_wind, df_sys, df_hroc,     \* Phase 1: the frames read
    eactor_dhhrsr_value,                    \* Phase 1: the capacity cell of the MORA sheet
    wind_solar, wind_solar_hroc, merged,    \* Phase 1: the joins
    API_USER, API_PASS, API_KEY,            \* Phase 2: the API settings of the environment
    token,      \* Phase 2: the bearer token of the API fetch in progress
    page,       \* Phase 2: params["page"] of the API fetch in progress
    rows,       \* Phase 2: the rows accumulated by the API fetch in progress
    payload,    \* Phase 2: the last page's payload
    requests,   \* Phase 2: every request sent to the token endpoint and the API
    served,     \* Phase 2: every page the API served
    df_rtm_spp_yday_filename,       \* Phase 2: what get_api_rtm_spp_yesterday returned
    df_api_dam_spp_yday_filename,   \* Phase 2: what get_api_dam_spp_yesterday returned
    df_dam_cpc_today, df_dam_cpc_yday, df_dam_spp_today, df_dam_spp_yday,   \* Phase 2
    df_rtm_spp_yday, df_api_dam_spp_yday,   \* Phase 2: the frames of the API files
    sheets,     \* Phase 2: the sheets of the workbook
    dart        \* Phase 2: the series plot_dart draws (rtm_hourly, dam, spread)

normVars == <<nIn, nOut>>

runVars == <<phase, pc, exc, SLACK_TOKEN, driver, quits, fi, visits, paths, production, slack>>

p1Frames == <<df_solar, df_wind, df_sys, df_hroc, eactor_dhhrsr_value>>

p1Joins == <<wind_solar, wind_solar_hroc, merged>>

apiVars ==
    <<API_USER, API_PASS, API_KEY, token, page, rows, payload, requests, served,
      df_rtm_spp_yday_filename, df_api_dam_spp_yday_filename>>

p2Frames ==
    <<df_dam_cpc_today, df_dam_cpc_yday, df_dam_spp_today, df_dam_spp_yday,
      df_rtm_spp_yday, df_api_dam_spp_yday>>

(***************************************************************************)
(* Text helpers                                                            *)
(***************************************************************************)
DigitChar == <<"0", "1", "2", "3", "4", "5", "6", "7", "8", "9">>

IsDigit(c) == \E i \in 1..10 : DigitChar[i] = c

DigitOf(c) == (CHOOSE i \in 1..10 : DigitChar[i] = c) - 1

\* A conversion either yields a value or raises.
Ok(v) == [ok |-> TRUE, val |-> v]
Raised == [ok |-> FALSE, val |-> 0]

\* Series.astype(str) of an integer column: the decimal digits, "-" for negatives.
RECURSIVE IntToStr(_)
IntToStr(n) ==
    IF n < 0 THEN <<"-">> \o IntToStr(-n)
    ELSE IF n < 10 THEN <<DigitChar[n + 1]>>
    ELSE IntToStr(n \div 10) \o <<DigitChar[(n % 10) + 1]>>

\* The value of a run of digits (leading zeros allowed).
RECURSIVE DigitsVal(_)
DigitsVal(s) ==
    IF s = <<>> THEN 0
    ELSE 10 * DigitsVal(SubSeq(s, 1, Len(s) - 1)) + DigitOf(s[Len(s)])

AllDigits(s) == s # <<>> /\ \A i \in 1..Len(s) : IsDigit(s[i])

\* Series.astype(int) of a text cell: Python's int(): an optional sign and
\* decimal digits; anything else raises ValueError.
ParseInt(s) ==
    IF AllDigits(s) THEN Ok(DigitsVal(s))
    ELSE IF s # <<>> /\ s[1] = "-" /\ AllDigits(Tail(s)) THEN Ok(0 - DigitsVal(Tail(s)))
    ELSE Raised

\* Position of the first occurrence of character c in s, 0 when absent.
FirstIndex(s, c) ==
    IF \E i \in 1..Len(s) : s[i] = c
    THEN CHOOSE i \in 1..Len(s) : s[i] = c /\ \A j \in 1..(i - 1) : s[j] # c
    ELSE 0

\* str.split(sep).str[0]: the text before the first separator (all of it when
\* there is none).
SplitFirst(s, c) ==
    IF FirstIndex(s, c) = 0 THEN s ELSE SubSeq(s, 1, FirstIndex(s, c) - 1)

\* The text after the first separator.
SplitRest(s, c) ==
    IF FirstIndex(s, c) = 0 THEN <<>> ELSE SubSeq(s, FirstIndex(s, c) + 1, Len(s))

Pad2(n) == IF n < 10 THEN <<"0">> \o IntToStr(n) ELSE IntToStr(n)

Pad4(n) ==
    IF n < 10 THEN <<"0", "0", "0">> \o IntToStr(n)
    ELSE IF n < 100 THEN <<"0", "0">> \o IntToStr(n)
    ELSE IF n < 1000 THEN <<"0">> \o IntToStr(n)
    ELSE IntToStr(n)

(***************************************************************************)
(* Dates and timestamps                                                    *)
(***************************************************************************)
Date(y, m, d) == [y |-> y, m |-> m, d |-> d]

NoDate == Date(0, 0, 0)

IsLeap(y) == (y % 4 = 0 /\ y % 100 # 0) \/ y % 400 = 0

DaysIn(y, m) ==
    IF m = 2 THEN (IF IsLeap(y) THEN 29 ELSE 28)
    ELSE IF m \in {4, 6, 9, 11} THEN 30 ELSE 31

ValidDate(y, m, d) == y \in 1..9999 /\ m \in 1..12 /\ d \in 1..DaysIn(y, m)

\* pd.to_datetime / read_csv(parse_dates=...) of a date cell: the portal's
\* "MM/DD/YYYY" and the API's "YYYY-MM-DD"; anything else does not parse.
ParseDate(s) ==
    LET sep == IF FirstIndex(s, "/") # 0 THEN "/" ELSE "-"
        a == ParseInt(SplitFirst(s, sep))
        b == ParseInt(SplitFirst(SplitRest(s, sep), sep))
        c == ParseInt(SplitRest(SplitRest(s, sep), sep))
        y == IF sep = "/" THEN c.val ELSE a.val
        m == IF sep = "/" THEN a.val ELSE b.val
        d == IF sep = "/" THEN b.val ELSE c.val
    IN  IF a.ok /\ b.ok /\ c.ok /\ ValidDate(y, m, d) THEN Ok(Date(y, m, d))
        ELSE [ok |-> FALSE, val |-> NoDate]

\* Series.astype(str) of a datetime64 column holding midnights: "YYYY-MM-DD".
DateToStr(d) == Pad4(d.y) \o <<"-">> \o Pad2(d.m) \o <<"-">> \o Pad2(d.d)

Stamp(d, h, mi) == [date |-> d, hour |-> h, minute |-> mi]

NoStamp == Stamp(NoDate, 0, 0)

\* pd.to_datetime of "YYYY-MM-DD H:MM": the clock hour must be 0..23 and the
\* minute 0..59, otherwise the parse raises.
ParseDateTime(s) ==
    LET d == ParseDate(SplitFirst(s, " "))
        clock == SplitRest(s, " ")
        h == ParseInt(SplitFirst(clock, ":"))
        mi == ParseInt(SplitRest(clock, ":"))
    IN  IF d.ok /\ h.ok /\ mi.ok /\ h.val \in 0..23 /\ mi.val \in 0..59
        THEN Ok(Stamp(d.val, h.val, mi.val))
        ELSE [ok |-> FALSE, val |-> NoStamp]

\* A raw hour-ending cell is an integer or a text; astype(str) makes both text.
IntCell(n) == [int |-> TRUE, n |-> n, s |-> <<>>]
TextCell(s) == [int |-> FALSE, n |-> 0, s |-> s]
AsStr(cell) == IF cell.int THEN IntToStr(cell.n) ELSE cell.s

\* HourEnding.astype(str).str.split(":").str[0].astype(int)
HourEndingInt(cell) == ParseInt(SplitFirst(AsStr(cell), ":"))

\* A variant that takes the hour-ending label for the clock hour.
ClockHourNoShift(he) == he

\* The hour-ending label is moved back one hour to the clock hour it starts.
ClockHour(he) == he - 1

\* pd.to_datetime(date.astype(str) + " " + (hour_ending - 1).astype(str) + ":00")
CanonicalStamp(date, he) ==
    ParseDateTime(DateToStr(date) \o <<" ">> \o IntToStr(ClockHour(he)) \o <<":", "0", "0">>)

\* Phase 2, the day-ahead tables: date parsed, hour-ending reduced to an integer,
\* then the canonical timestamp.
NormalizeDam(dateCell, hourCell) ==
    LET d == ParseDate(dateCell)
        h == HourEndingInt(hourCell)
    IN  IF d.ok /\ h.ok THEN CanonicalStamp(d.val, h.val)
        ELSE [ok |-> FALSE, val |-> NoStamp]

\* Phase 2, the real-time table: deliveryHour is already an integer column.
NormalizeRtm(dateCell, hour) ==
    LET d == ParseDate(dateCell)
    IN  IF d.ok THEN CanonicalStamp(d.val, hour)
        ELSE [ok |-> FALSE, val |-> NoStamp]

\* Phase 1: the system forecast's DeliveryDate is parsed on reading, its
\* HourEnding text reduced to HOUR_ENDING, and the timestamp built from both.
NormalizeSys(dateCell, hourCell) ==
    LET d == ParseDate(dateCell)
        h == HourEndingInt(hourCell)
    IN  IF d.ok /\ h.ok THEN CanonicalStamp(d.val, h.val)
        ELSE [ok |-> FALSE, val |-> NoStamp]

(***************************************************************************)
(* pandas frames: a set of column names and a sequence of rows, each row a *)
(* function from the column names to the cell values                       *)
(***************************************************************************)
Frame(cols, rs) == [columns |-> cols, rows |-> rs]

NoFrame == Frame({}, <<>>)

\* A date cell after reading: parsed to a date (datetime64) or left as text (object).
DateCell(d) == [parsed |-> TRUE, date |-> d, text |-> <<>>]
TextDate(s) == [parsed |-> FALSE, date |-> NoDate, text |-> s]

\* read_csv(parse_dates=[col]): the column becomes datetime64 only when every
\* cell parses; otherwise it silently stays text.
ReadCsvDates(raw, col) ==
    IF \A i \in 1..Len(raw.rows) : ParseDate(raw.rows[i][col]).ok
    THEN Frame(raw.columns,
               [i \in 1..Len(raw.rows) |->
                   [raw.rows[i] EXCEPT ![col] = DateCell(ParseDate(raw.rows[i][col]).val)]])
    ELSE Frame(raw.columns,
               [i \in 1..Len(raw.rows) |->
                   [raw.rows[i] EXCEPT ![col] = TextDate(raw.rows[i][col])]])

\* DataFrame.merge(how="inner") names: a column of both frames that is not a
\* key common to left_on and right_on gets the suffix _x (left) or _y (right).
SharedKeys(left_on, right_on) ==
    {left_on[i] : i \in {j \in 1..Len(left_on) : left_on[j] = right_on[j]}}

Overlap(L, R, left_on, right_on) ==
    (L.columns \cap R.columns) \ SharedKeys(left_on, right_on)

LeftName(c, ov) == IF c \in ov THEN c \o "_x" ELSE c
RightName(c, ov) == IF c \in ov THEN c \o "_y" ELSE c

MergeColumns(L, R, left_on, right_on) ==
    LET ov == Overlap(L, R, left_on, right_on)
    IN  {LeftName(c, ov) : c \in L.columns}
            \cup {RightName(c, ov) : c \in R.columns \ SharedKeys(left_on, right_on)}

\* A variant that compares the first key column (the date) only.
KeysMatchFirstOnly(l, r, left_on, right_on) == l[left_on[1]] = r[right_on[1]]

\* Two rows match when they agree on every key column, pairwise.
KeysMatch(l, r, left_on, right_on) ==
    \A i \in 1..Len(left_on) : l[left_on[i]] = r[right_on[i]]

\* The row a matching pair makes.
MergeRow(l, r, L, R, left_on, right_on) ==
    LET ov == Overlap(L, R, left_on, right_on)
    IN  [c \in MergeColumns(L, R, left_on, right_on) |->
            IF \E lc \in L.columns : LeftName(lc, ov) = c
            THEN l[CHOOSE lc \in L.columns : LeftName(lc, ov) = c]
            ELSE r[CHOOSE rc \in R.columns : RightName(rc, ov) = c]]

\* The matches of left row l among the right rows j..end, in the right's order.
RECURSIVE MatchesOf(_, _, _, _, _, _)
MatchesOf(l, j, L, R, left_on, right_on) ==
    IF j > Len(R.rows) THEN <<>>
    ELSE (IF KeysMatch(l, R.rows[j], left_on, right_on)
          THEN <<MergeRow(l, R.rows[j], L, R, left_on, right_on)>>
          ELSE <<>>)
         \o MatchesOf(l, j + 1, L, R, left_on, right_on)

\* Every matching pair, in the left's order: one row per pair.
RECURSIVE MergeRows(_, _, _, _, _)
MergeRows(i, L, R, left_on, right_on) ==
    IF i > Len(L.rows) THEN <<>>
    ELSE MatchesOf(L.rows[i], 1, L, R, left_on, right_on)
         \o MergeRows(i + 1, L, R, left_on, right_on)

\* The date key columns of both sides have the same dtype (both datetime64 or
\* both text).  pandas checks it only when both sides hold rows, and raises
\* ValueError when they differ.
KeyDtypesAgree(L, R, lcol, rcol) ==
    \A i \in 1..Len(L.rows), j \in 1..Len(R.rows) :
        L.rows[i][lcol].parsed = R.rows[j][rcol].parsed

\* left.merge(right, left_on=..., right_on=...)
Merge(L, R, left_on, right_on) ==
    IF L.rows = <<>> \/ R.rows = <<>>
    THEN Frame(MergeColumns(L, R, left_on, right_on), <<>>)
    ELSE Frame(MergeColumns(L, R, left_on, right_on), MergeRows(1, L, R, left_on, right_on))

\* DataFrame.rename(columns=map): names absent from the frame are ignored.
RenameTo(c, map) == IF c \in DOMAIN map THEN map[c] ELSE c

Rename(F, map) ==
    LET new == {RenameTo(c, map) : c \in F.columns}
    IN  Frame(new,
              [i \in 1..Len(F.rows) |->
                  [c \in new |-> F.rows[i][CHOOSE o \in F.columns : RenameTo(o, map) = c]]])

\* df[name] = values: the column is added (or replaced), row by row.
WithColumn(F, name, values) ==
    Frame(F.columns \cup {name},
          [i \in 1..Len(F.rows) |->
              [c \in F.columns \cup {name} |->
                  IF c = name THEN values[i] ELSE F.rows[i][c]]])

(***************************************************************************)
(* How the sources print dates and hour-endings                           *)
(***************************************************************************)
\* How the sources print a date and an hour-ending.
RenderUS(d) == Pad2(d.m) \o <<"/">> \o Pad2(d.d) \o <<"/">> \o Pad4(d.y)
RenderISO(d) == DateToStr(d)

RenderHour(fmt, he) ==
    IF fmt = "int" THEN IntCell(he)
    ELSE IF fmt = "H:MM" THEN TextCell(IntToStr(he) \o <<":", "0", "0">>)
    ELSE TextCell(Pad2(he) \o <<":", "0", "0">>)

HourFormats == {"int", "H:MM", "HH:MM"}

HourEndings == 1..24

NormDates == {Date(2024, 1, 10), Date(2024, 2, 29), Date(2024, 12, 31), Date(2025, 3, 1)}

NormIdle == nIn = [date |-> NoDate, fmt |-> "int", he |-> 0] /\ nOut = [by |-> "idle", res |-> Ok(NoStamp)]

(***************************************************************************)
(* Bounds of the model                                                     *)
(***************************************************************************)
\* Rows per report read by Phase 1 (2 allows a key on two rows of a report).
MaxRows == 2

\* Entries of a downloaded archive.
MaxEntries == 2

(***************************************************************************)
(* The run of a script: common parts of both main() functions              *)
(***************************************************************************)
P1Reports == <<"solar", "wind", "sysfcst", "hroc", "mora">>

AllReports ==
    {"solar", "wind", "sysfcst", "hroc", "mora",
     "dam_cpc_today", "dam_cpc_yday", "dam_spp_today", "dam_spp_yday"}

\* A file in PRODUCTION_DIR: the k-th entry extracted from a report's archive
\* (entry 0: a directly downloaded file), or an artifact of the run.
Extracted(report, k) == [kind |-> "download", of |-> report, entry |-> k]
Artifact(name) == [kind |-> "artifact", of |-> name, entry |-> 0]
NoFile == [kind |-> "none", of |-> "", entry |-> 0]

FrameIdle ==
    /\ df_solar = NoFrame /\ df_wind = NoFrame /\ df_sys = NoFrame /\ df_hroc = NoFrame
    /\ eactor_dhhrsr_value = 0
    /\ wind_solar = NoFrame /\ wind_solar_hroc = NoFrame /\ merged = NoFrame

\* What an API fetch function returned: nothing yet, None, or the name of the
\* csv file it saved (here: the file's columns and rows).
NotReturned == [returned |-> FALSE, saved |-> FALSE, columns |-> <<>>, rows |-> <<>>]
None == [returned |-> TRUE, saved |-> FALSE, columns |-> <<>>, rows |-> <<>>]

\* plot_dart has drawn nothing.
NoDart == [rtm_hourly |-> <<>>, dam |-> <<>>, spread |-> <<>>]

ApiIdle ==
    /\ API_USER = "none" /\ API_PASS = "none" /\ API_KEY = "none"
    /\ token = "" /\ page = 0 /\ rows = <<>>
    /\ payload = [data |-> <<>>, fields |-> <<>>]
    /\ requests = <<>> /\ served = <<>>
    /\ df_rtm_spp_yday_filename = NotReturned
    /\ df_api_dam_spp_yday_filename = NotReturned
    /\ df_dam_cpc_today = NoFrame /\ df_dam_cpc_yday = NoFrame
    /\ df_dam_spp_today = NoFrame /\ df_dam_spp_yday = NoFrame
    /\ df_rtm_spp_yday = NoFrame /\ df_api_dam_spp_yday = NoFrame
    /\ sheets = {}
    /\ dart = NoDart

RunIdle ==
    /\ phase = 0 /\ pc = "idle" /\ exc = ""
    /\ SLACK_TOKEN = FALSE
    /\ driver = "none" /\ quits = 0 /\ fi = 0
    /\ visits = <<>>
    /\ paths = [r \in AllReports |-> NoFile]
    /\ production = {}
    /\ slack = "none"
    /\ FrameIdle
    /\ ApiIdle

\* An exception leaves main(): the script ends without reaching the later lines.
Abort(cause) == pc' = "aborted" /\ exc' = cause

\* What get_download_link, requests.get and ZipFile can do to one process_file
\* call: the link is found or the wait times out, the transfer succeeds or
\* raise_for_status() raises, the bytes are an archive or not.
FetchOutcomes == {"ok", "TimeoutException", "HTTPError", "BadZipFile"}

\* send_slack_notification: nothing without a token; SlackApiError is caught and
\* logged, never raised.
SlackOutcomes == IF SLACK_TOKEN THEN {"sent", "error"} ELSE {"skipped"}

(***************************************************************************)
(* eepp_service.py: the scheduler starts each script as a blocking command *)
(***************************************************************************)
\* run_phase_1 (05:00): a fresh process, which reads SLACK_TOKEN on import.
SvcRunPhase1 ==
    /\ phase = 0 /\ pc = "idle"
    /\ phase' = 1 /\ pc' = "start"
    /\ SLACK_TOKEN' \in BOOLEAN
    /\ UNCHANGED <<exc, driver, quits, fi, visits, paths, production, slack>>
    /\ UNCHANGED <<p1Frames, p1Joins, normVars, apiVars, p2Frames, sheets, dart>>

\* The script has ended, normally or by an exception; the scheduler goes on.
SvcCommandReturns ==
    /\ phase # 0 /\ pc \in {"done", "aborted"}
    /\ phase' = 0 /\ pc' = "idle" /\ exc' = ""
    /\ SLACK_TOKEN' = FALSE
    /\ driver' = "none" /\ quits' = 0 /\ fi' = 0
    /\ visits' = <<>>
    /\ paths' = [r \in AllReports |-> NoFile]
    /\ production' = {}
    /\ slack' = "none"
    /\ df_solar' = NoFrame /\ df_wind' = NoFrame /\ df_sys' = NoFrame /\ df_hroc' = NoFrame
    /\ eactor_dhhrsr_value' = 0
    /\ wind_solar' = NoFrame /\ wind_solar_hroc' = NoFrame /\ merged' = NoFrame
    /\ API_USER' = "none" /\ API_PASS' = "none" /\ API_KEY' = "none"
    /\ token' = "" /\ page' = 0 /\ rows' = <<>>
    /\ payload' = [data |-> <<>>, fields |-> <<>>]
    /\ requests' = <<>> /\ served' = <<>>
    /\ df_rtm_spp_yday_filename' = NotReturned
    /\ df_api_dam_spp_yday_filename' = NotReturned
    /\ df_dam_cpc_today' = NoFrame /\ df_dam_cpc_yday' = NoFrame
    /\ df_dam_spp_today' = NoFrame /\ df_dam_spp_yday' = NoFrame
    /\ df_rtm_spp_yday' = NoFrame /\ df_api_dam_spp_yday' = NoFrame
    /\ sheets' = {}
    /\ dart' = NoDart
    /\ UNCHANGED normVars

(***************************************************************************)
(* eepp_phase_1.py: the reports as the portal publishes them               *)
(***************************************************************************)
D1 == Date(2024, 1, 10)
D2 == Date(2024, 1, 11)

\* The (delivery date, hour-ending) keys a report row can carry, in report order.
Keys == <<[date |-> D1, he |-> 1], [date |-> D1, he |-> 2], [date |-> D2, he |-> 1]>>

\* A report lists its rows by date and hour; a key may repeat (the repeated
\* hour of a daylight-saving day, a resubmitted row).
KeySeqs(n) ==
    {s \in UNION {[1..k -> 1..Len(Keys)] : k \in 0..n} :
        \A i \in 1..(Len(s) - 1) : s[i] <= s[i + 1]}

\* The measurements printed on the i-th row of each report, and the capacity
\* cell: positive, zero and negative numbers.
Valuations ==
    {[solar |-> 5, wind |-> 3, demand |-> 40, zone |-> 2, capacity |-> 100, fmt |-> "H:MM"],
     [solar |-> -4, wind |-> 0, demand |-> -7, zone |-> -1, capacity |-> 0, fmt |-> "HH:MM"]}

\* What a download can hold: well-formed reports, or one of the defects that
\* the script meets while reading and normalizing.
P1Kinds == {"nominal", "bad_hour", "bad_date", "hour25", "no_mora"}

P1Scenarios ==
    [kind : {"nominal"}, v : Valuations]
        \cup [kind : P1Kinds \ {"nominal"}, v : {v \in Valuations : v.fmt = "H:MM"}]

\* A report that lists every key at most once.
UniqueSeqs(n) == {s \in KeySeqs(n) : \A i \in 1..(Len(s) - 1) : s[i] < s[i + 1]}

\* Reports of no row or one row.
ShortSeqs == {s \in KeySeqs(MaxRows) : Len(s) <= 1}

\* The reports of a run of the whole script: every report lists the same key;
\* the reports share no key; one report is empty; two hours on every report.
RunShapes ==
    {[solar |-> <<1>>, wind |-> <<1>>, hroc |-> <<1>>, sys |-> <<1>>],
     [solar |-> <<1>>, wind |-> <<2>>, hroc |-> <<1>>, sys |-> <<3>>],
     [solar |-> <<1>>, wind |-> <<1>>, hroc |-> <<>>, sys |-> <<1>>],
     [solar |-> <<1, 2>>, wind |-> <<1, 2>>, hroc |-> <<1, 2>>, sys |-> <<1, 2>>]}

\* For the checks of the joins and the metrics: solar and wind reports of up to
\* MaxRows rows in which a key may repeat, outage and system forecast reports
\* of up to MaxRows rows with distinct keys.
LongShapes ==
    [solar : KeySeqs(MaxRows), wind : KeySeqs(MaxRows),
     hroc : UniqueSeqs(MaxRows), sys : UniqueSeqs(MaxRows)]

\* The defects are met on short reports.
ShapesFor(sc, shapes) ==
    IF sc.kind = "nominal" THEN shapes
    ELSE [solar : ShortSeqs, wind : ShortSeqs, hroc : ShortSeqs, sys : ShortSeqs] \cap shapes

HourOf(sc, he) == IF sc.kind = "hour25" /\ he = 2 THEN 25 ELSE he

SolarColumns == {"DELIVERY_DATE", "HOUR_ENDING", "COP_HSL_SYSTEM_WIDE"}

HrocColumns ==
    {"Date", "HourEnding", "TotalResourceMWZoneSouth", "TotalResourceMWZoneNorth",
     "TotalResourceMWZoneWest", "TotalResourceMWZoneHouston"}

SysColumns == {"DeliveryDate", "HourEnding", "SystemTotal"}

SolarCsv(ks, sc) ==
    Frame(SolarColumns,
          [i \in 1..Len(ks) |->
              [c \in SolarColumns |->
                  CASE c = "DELIVERY_DATE" -> RenderUS(Keys[ks[i]].date)
                    [] c = "HOUR_ENDING" -> HourOf(sc, Keys[ks[i]].he)
                    [] OTHER -> sc.v.solar * (i - 2)]])

WindCsv(ks, sc) ==
    Frame(SolarColumns,
          [i \in 1..Len(ks) |->
              [c \in SolarColumns |->
                  CASE c = "DELIVERY_DATE" -> RenderUS(Keys[ks[i]].date)
                    [] c = "HOUR_ENDING" -> HourOf(sc, Keys[ks[i]].he)
                    [] OTHER -> sc.v.wind * i + 1]])

HrocCsv(ks, sc) ==
    Frame(HrocColumns,
          [i \in 1..Len(ks) |->
              [c \in HrocColumns |->
                  CASE c = "Date" -> RenderUS(Keys[ks[i]].date)
                    [] c = "HourEnding" -> HourOf(sc, Keys[ks[i]].he)
                    [] c = "TotalResourceMWZoneSouth" -> sc.v.zone * i
                    [] c = "TotalResourceMWZoneNorth" -> sc.v.zone * (i - 2)
                    [] c = "TotalResourceMWZoneWest" -> 0
                    [] OTHER -> 7 - i]])

SysCsv(ks, sc) ==
    Frame(SysColumns,
          [i \in 1..Len(ks) |->
              [c \in SysColumns |->
                  CASE c = "DeliveryDate" ->
                         IF sc.kind = "bad_date" THEN <<"T", "B", "D">>
                         ELSE RenderUS(Keys[ks[i]].date)
                    [] c = "HourEnding" ->
                         IF sc.kind = "bad_hour"
                         THEN TextCell(<<"H", "E">> \o IntToStr(Keys[ks[i]].he))
                         ELSE RenderHour(sc.v.fmt, HourOf(sc, Keys[ks[i]].he))
                    [] OTHER -> sc.v.demand * i]])

\* The cell [2, 3] of the "Capacity by Resource Category" sheet.
MoraCell(sc) == IF sc.kind = "no_mora" THEN Raised ELSE Ok(sc.v.capacity)

(***************************************************************************)
(* eepp_phase_1.py: main()                                                 *)
(***************************************************************************)
\* Lines 137-145: directories, archive housekeeping, the browser session.
\* Creating the session can fail, and then there is none to close.
P1Start ==
    /\ phase = 1 /\ pc = "start"
    /\ \E created \in BOOLEAN :
          IF created
          THEN driver' = "open" /\ pc' = "fetch" /\ fi' = 1 /\ exc' = exc
          ELSE driver' = driver /\ Abort("WebDriverException") /\ fi' = fi
    /\ UNCHANGED <<phase, SLACK_TOKEN, quits, visits, paths, production, slack>>
    /\ UNCHANGED <<p1Frames, p1Joins, normVars, apiVars, p2Frames, sheets, dart>>

\* download_and_extract_zip: every entry is extracted into the directory and
\* the first name is returned; an archive without entries has no first name.
ExtractedFiles(report, entries) == {Extracted(report, k) : k \in 1..entries}

\* process_file (lines 82-92), called in the try block (lines 147-152): the
\* link is looked up on the report's page, the file downloaded and, for a zip,
\* extracted and moved to its name.  An exception leaves the try block.
P1ProcessFile ==
    /\ phase = 1 /\ pc = "fetch" /\ fi \in 1..Len(P1Reports)
    /\ \E out \in FetchOutcomes, entries \in 0..MaxEntries :
          LET report == P1Reports[fi]
              zip == report # "mora"
              raised == IF out # "ok" THEN out
                        ELSE IF zip /\ entries = 0 THEN "IndexError" ELSE ""
          IN  /\ zip \/ (out # "BadZipFile" /\ entries = 0)
              /\ out # "ok" => entries = 0
              /\ entries > 1 => \A i \in 1..Len(visits) : visits[i].entries <= 1
              /\ visits' = Append(visits, [report |-> report, driver |-> driver,
                                           raised |-> raised, entries |-> entries])
              /\ IF raised # ""
                 THEN /\ exc' = raised /\ pc' = "quit"
                      /\ UNCHANGED <<fi, paths, production>>
                 ELSE /\ production' = production \cup
                            (IF zip THEN ExtractedFiles(report, entries)
                             ELSE {Extracted(report, 0)})
                      /\ paths' = [paths EXCEPT
                            ![report] = IF zip THEN Extracted(report, 1)
                                        ELSE Extracted(report, 0)]
                      /\ fi' = fi + 1
                      /\ pc' = IF fi = Len(P1Reports) THEN "quit" ELSE "fetch"
                      /\ exc' = exc
    /\ UNCHANGED <<phase, SLACK_TOKEN, driver, quits, slack>>
    /\ UNCHANGED <<p1Frames, p1Joins, normVars, apiVars, p2Frames, sheets, dart>>

\* A variant in which the exception of the try block is dropped and main()
\* goes on to read the files.
P1QuitSwallows ==
    /\ phase = 1 /\ pc = "quit"
    /\ driver' = "closed" /\ quits' = quits + 1
    /\ pc' = "read"
    /\ UNCHANGED <<phase, exc, SLACK_TOKEN, fi, visits, paths, production, slack>>
    /\ UNCHANGED <<p1Frames, p1Joins, normVars, apiVars, p2Frames, sheets, dart>>

\* Lines 153-154, the finally block: the session is closed, and an exception
\* of the try block goes on out of main().
P1Quit ==
    /\ phase = 1 /\ pc = "quit"
    /\ driver' = "closed" /\ quits' = quits + 1
    /\ pc' = IF exc # "" THEN "aborted" ELSE "read"
    /\ UNCHANGED <<phase, exc, SLACK_TOKEN, fi, visits, paths, production, slack>>
    /\ UNCHANGED <<p1Frames, p1Joins, normVars, apiVars, p2Frames, sheets, dart>>

\* Lines 155-160: the four csv files are read with their date column parsed,
\* the MORA sheet is read and its capacity cell taken (IndexError when the
\* sheet has no such cell).  shapes: the row keys a report may list.
P1Read(shapes) ==
    /\ phase = 1 /\ pc = "read"
    /\ \E sc \in P1Scenarios :
       \E ks \in ShapesFor(sc, shapes) :
          /\ df_solar' = ReadCsvDates(SolarCsv(ks.solar, sc), "DELIVERY_DATE")
          /\ df_wind' = ReadCsvDates(WindCsv(ks.wind, sc), "DELIVERY_DATE")
          /\ df_sys' = ReadCsvDates(SysCsv(ks.sys, sc), "DeliveryDate")
          /\ df_hroc' = ReadCsvDates(HrocCsv(ks.hroc, sc), "Date")
          /\ IF MoraCell(sc).ok
             THEN eactor_dhhrsr_value' = MoraCell(sc).val
                  /\ pc' = "merge_wind_solar" /\ exc' = exc
             ELSE eactor_dhhrsr_value' = eactor_dhhrsr_value /\ Abort("IndexError")
    /\ UNCHANGED <<phase, SLACK_TOKEN, driver, quits, fi, visits, paths, production, slack>>
    /\ UNCHANGED <<p1Joins, normVars, apiVars, p2Frames, sheets, dart>>

\* A run of the whole script reads one of the RunShapes.
P1ReadReports == P1Read(RunShapes)

\* For the checks of the joins and the metrics: the LongShapes.
P1ReadLongReports == P1Read(LongShapes)

\* Line 161: solar joined with wind on (DELIVERY_DATE, HOUR_ENDING).
P1MergeWindSolar ==
    /\ phase = 1 /\ pc = "merge_wind_solar"
    /\ IF KeyDtypesAgree(df_solar, df_wind, "DELIVERY_DATE", "DELIVERY_DATE")
       THEN /\ wind_solar' = Merge(df_solar, df_wind, <<"DELIVERY_DATE", "HOUR_ENDING">>,
                                   <<"DELIVERY_DATE", "HOUR_ENDING">>)
            /\ pc' = "merge_hroc" /\ exc' = exc
       ELSE wind_solar' = wind_solar /\ Abort("ValueError")
    /\ UNCHANGED <<phase, SLACK_TOKEN, driver, quits, fi, visits, paths, production, slack>>
    /\ UNCHANGED <<p1Frames, wind_solar_hroc, merged, normVars, apiVars, p2Frames, sheets, dart>>

\* Line 162: HOUR_ENDING of the system forecast, from its HourEnding text.
SysHoursParse(F) == \A i \in 1..Len(F.rows) : HourEndingInt(F.rows[i]["HourEnding"]).ok

WithHourEnding(F) ==
    WithColumn(F, "HOUR_ENDING",
        [i \in 1..Len(F.rows) |-> HourEndingInt(F.rows[i]["HourEnding"]).val])

\* Lines 162-164: the hour-ending of the system forecast is made an integer
\* (ValueError when a cell is no number), then the outage report is joined on
\* (DELIVERY_DATE, HOUR_ENDING) = (Date, HourEnding).
P1MergeHroc ==
    /\ phase = 1 /\ pc = "merge_hroc"
    /\ IF ~SysHoursParse(df_sys)
       THEN Abort("ValueError") /\ UNCHANGED <<df_sys, wind_solar_hroc>>
       ELSE /\ df_sys' = WithHourEnding(df_sys)
            /\ IF KeyDtypesAgree(wind_solar, df_hroc, "DELIVERY_DATE", "Date")
               THEN /\ wind_solar_hroc' =
                          Merge(wind_solar, df_hroc, <<"DELIVERY_DATE", "HOUR_ENDING">>,
                                <<"Date", "HourEnding">>)
                    /\ pc' = "merge_sys" /\ exc' = exc
               ELSE wind_solar_hroc' = wind_solar_hroc /\ Abort("ValueError")
    /\ UNCHANGED <<phase, SLACK_TOKEN, driver, quits, fi, visits, paths, production, slack>>
    /\ UNCHANGED <<df_solar, df_wind, df_hroc, eactor_dhhrsr_value, wind_solar, merged>>
    /\ UNCHANGED <<normVars, apiVars, p2Frames, sheets, dart>>

\* Lines 165-166: the system forecast joined with the rest on
\* (DeliveryDate, HOUR_ENDING) = (DELIVERY_DATE, HOUR_ENDING).  A DeliveryDate
\* column that did not parse cannot be joined with parsed dates (ValueError).
P1MergeSys ==
    /\ phase = 1 /\ pc = "merge_sys"
    /\ IF KeyDtypesAgree(df_sys, wind_solar_hroc, "DeliveryDate", "DELIVERY_DATE")
       THEN /\ merged' = Merge(df_sys, wind_solar_hroc, <<"DeliveryDate", "HOUR_ENDING">>,
                               <<"DELIVERY_DATE", "HOUR_ENDING">>)
            /\ pc' = "derive" /\ exc' = exc
       ELSE merged' = merged /\ Abort("ValueError")
    /\ UNCHANGED <<phase, SLACK_TOKEN, driver, quits, fi, visits, paths, production, slack>>
    /\ UNCHANGED <<p1Frames, wind_solar, wind_solar_hroc, normVars, apiVars, p2Frames, sheets, dart>>

\* A variant that takes the _y column for solar and the _x column for wind.
RenameMapSwapped ==
    [c \in {"SystemTotal", "COP_HSL_SYSTEM_WIDE_y", "COP_HSL_SYSTEM_WIDE_x"} |->
        CASE c = "SystemTotal" -> "Forecasted Demand"
          [] c = "COP_HSL_SYSTEM_WIDE_y" -> "Forecasted Solar Supply"
          [] OTHER -> "Forecasted Wind Supply"]

\* Lines 167-171: the names the derived metrics use.  After the joins the solar
\* report's COP_HSL_SYSTEM_WIDE carries the suffix _x and the wind report's _y.
RenameMap ==
    [c \in {"SystemTotal", "COP_HSL_SYSTEM_WIDE_y", "COP_HSL_SYSTEM_WIDE_x"} |->
        CASE c = "SystemTotal" -> "Forecasted Demand"
          [] c = "COP_HSL_SYSTEM_WIDE_y" -> "Forecasted Wind Supply"
          [] OTHER -> "Forecasted Solar Supply"]

\* The columns lines 172-182 read; a missing one raises KeyError.
DeriveInputs ==
    {"Forecasted Wind Supply", "Forecasted Solar Supply", "Forecasted Demand",
     "TotalResourceMWZoneSouth", "TotalResourceMWZoneNorth", "TotalResourceMWZoneWest",
     "TotalResourceMWZoneHouston", "DeliveryDate", "HOUR_ENDING"}

\* Lines 175-178.
TotalOutages(row) ==
    row["TotalResourceMWZoneSouth"] + row["TotalResourceMWZoneNorth"]
        + row["TotalResourceMWZoneWest"] + row["TotalResourceMWZoneHouston"]

\* Lines 172-181, in the order of the script: each column is computed from the
\* columns already present on the same row.
Derive(F, capacity) ==
    LET n == Len(F.rows)
        f1 == WithColumn(F, "Forecasted Renewables Output",
                  [i \in 1..n |-> F.rows[i]["Forecasted Wind Supply"]
                                     + F.rows[i]["Forecasted Solar Supply"]])
        f2 == WithColumn(f1, "Dispatchable Supply",
                  [i \in 1..n |-> f1.rows[i]["Forecasted Demand"]
                                     - f1.rows[i]["Forecasted Renewables Output"]])
        f3 == WithColumn(f2, "EACTOR_DHHRSR", [i \in 1..n |-> capacity])
        f4 == WithColumn(f3, "total_resource_outages", [i \in 1..n |-> TotalOutages(f3.rows[i])])
        f5 == WithColumn(f4, "Forecasted Net Load",
                  [i \in 1..n |-> f4.rows[i]["Forecasted Demand"]
                                     - f4.rows[i]["Forecasted Renewables Output"]])
        f6 == WithColumn(f5, "Forecasted Net Thermal Capacity",
                  [i \in 1..n |-> f5.rows[i]["EACTOR_DHHRSR"]
                                     - f5.rows[i]["total_resource_outages"]])
    IN  WithColumn(f6, "Forecasted Thermal Reserve Margin",
            [i \in 1..n |-> f6.rows[i]["Forecasted Net Thermal Capacity"]
                               - f6.rows[i]["Forecasted Net Load"]])

\* Line 182: the canonical timestamp of every row.
StampsParse(F) ==
    \A i \in 1..Len(F.rows) :
        CanonicalStamp(F.rows[i]["DeliveryDate"].date, F.rows[i]["HOUR_ENDING"]).ok

WithDatetime(F) ==
    WithColumn(F, "datetime",
        [i \in 1..Len(F.rows) |->
            CanonicalStamp(F.rows[i]["DeliveryDate"].date, F.rows[i]["HOUR_ENDING"]).val])

\* Lines 167-182: rename, the derived metrics, the timestamp.  A column that is
\* not there raises KeyError; a timestamp that does not parse raises ValueError.
\* An empty joined table raises nothing.
P1Derive ==
    /\ phase = 1 /\ pc = "derive"
    /\ LET renamed == Rename(merged, RenameMap)
       IN  IF ~(DeriveInputs \subseteq renamed.columns)
           THEN merged' = renamed /\ Abort("KeyError")
           ELSE IF ~StampsParse(Derive(renamed, eactor_dhhrsr_value))
           THEN merged' = Derive(renamed, eactor_dhhrsr_value) /\ Abort("ValueError")
           ELSE /\ merged' = WithDatetime(Derive(renamed, eactor_dhhrsr_value))
                /\ pc' = "plot" /\ exc' = exc
    /\ UNCHANGED <<phase, SLACK_TOKEN, driver, quits, fi, visits, paths, production, slack>>
    /\ UNCHANGED <<p1Frames, wind_solar, wind_solar_hroc, normVars, apiVars, p2Frames, sheets, dart>>

\* Line 183: plot_combined_forecast saves the chart.
P1Plot ==
    /\ phase = 1 /\ pc = "plot"
    /\ production' = production \cup {Artifact("chart")}
    /\ pc' = "excel"
    /\ UNCHANGED <<phase, exc, SLACK_TOKEN, driver, quits, fi, visits, paths, slack>>
    /\ UNCHANGED <<p1Frames, p1Joins, normVars, apiVars, p2Frames, sheets, dart>>

\* Lines 184-193: the styled workbook.
P1Excel ==
    /\ phase = 1 /\ pc = "excel"
    /\ production' = production \cup {Artifact("workbook")}
    /\ pc' = "notify"
    /\ UNCHANGED <<phase, exc, SLACK_TOKEN, driver, quits, fi, visits, paths, slack>>
    /\ UNCHANGED <<p1Frames, p1Joins, normVars, apiVars, p2Frames, sheets, dart>>

\* Lines 194-197: the notification, then the end of main().
P1Notify ==
    /\ phase = 1 /\ pc = "notify"
    /\ slack' \in SlackOutcomes
    /\ pc' = "done"
    /\ UNCHANGED <<phase, exc, SLACK_TOKEN, driver, quits, fi, visits, paths, production>>
    /\ UNCHANGED <<p1Frames, p1Joins, normVars, apiVars, p2Frames, sheets, dart>>

Phase1 ==
    \/ P1Start \/ P1ProcessFile \/ P1Quit \/ P1ReadReports
    \/ P1MergeWindSolar \/ P1MergeHroc \/ P1MergeSys \/ P1Derive
    \/ P1Plot \/ P1Excel \/ P1Notify

(***************************************************************************)
(* eepp_phase_2.py: the report API                                         *)
(***************************************************************************)
\* params["size"] of both queries (lines 108 and 125).
PageSize == 100

\* The API's pages served to one query at most: the last one the server can be
\* asked for is short.
MaxPages == 3

\* Real-time intervals per hour of the tables the DART panel is drawn from.
MaxIntervals == 3

\* A variant that does not look at the subscription key.
CredentialsUserAndPassword == API_USER = "set" /\ API_PASS = "set"

\* Lines 103 and 121: each of the three settings must be there and non-empty.
CredentialsComplete == API_USER = "set" /\ API_PASS = "set" /\ API_KEY = "set"

CredentialValues == {"none", "empty", "set"}

\* The j-th row of page p of a query: a real-time price of one 15-minute
\* interval of yesterday, or a day-ahead price.
ApiRow(which, p, j) ==
    LET g == (p - 1) * PageSize + j
    IN  [of |-> which, page |-> p, idx |-> j,
         deliveryDate |-> RenderISO(D1),
         deliveryHour |-> (((g - 1) \div 4) % 24) + 1,
         deliveryInterval |-> ((g - 1) % 4) + 1,
         settlementPoint |-> "LZ_NORTH",
         settlementPointPrice |-> 20 + (g % 7)]

ApiPage(which, p, n) == [j \in 1..n |-> ApiRow(which, p, j)]

ApiFields ==
    <<"deliveryDate", "deliveryHour", "deliveryInterval", "settlementPoint",
      "settlementPointPrice">>

\* A declaration of fields that leaves the interval out.
DeclaredFields == <<"deliveryDate", "deliveryHour", "settlementPoint", "settlementPointPrice">>

\* A payload declares its fields or not.
FieldDeclarations == {<<>>, DeclaredFields}

\* The numbers of rows a page can hold.
PageLens == {0, 1, PageSize - 1, PageSize}

\* In a run of the whole script the server holds at most one row.
ShortLens == {0, 1}

\* A variant in which a full page ends the loop too.
LastPageOrFull(data) == Len(data) <= PageSize

\* Lines 113 and 130: a page with fewer rows than asked for ends the loop.
LastPage(data) == Len(data) < PageSize

\* The requests sent to one endpoint, and the pages it served, in order.
RequestsTo(which) == SelectSeq(requests, LAMBDA r : r.to = which)
ServedBy(which) == SelectSeq(served, LAMBDA r : r.to = which)

\* Lines 102-104 and 120-122: without complete credentials the function logs an
\* error and returns None; no request is made.
ApiCredentials(which, next) ==
    /\ phase = 2 /\ pc = which
    /\ IF CredentialsComplete
       THEN /\ pc' = which \o "_token"
            /\ UNCHANGED <<df_rtm_spp_yday_filename, df_api_dam_spp_yday_filename>>
       ELSE /\ pc' = next
            /\ IF which = "rtm"
               THEN /\ df_rtm_spp_yday_filename' = None
                    /\ UNCHANGED df_api_dam_spp_yday_filename
               ELSE /\ df_api_dam_spp_yday_filename' = None
                    /\ UNCHANGED df_rtm_spp_yday_filename
    /\ UNCHANGED <<token, page, rows, payload, requests, served>>
    /\ UNCHANGED <<phase, exc, SLACK_TOKEN, API_USER, API_PASS, API_KEY, driver, quits, fi,
                   visits, paths, production, slack>>
    /\ UNCHANGED <<p1Frames, p1Joins, p2Frames, sheets, dart, normVars>>

\* Lines 105 and 123, get_api_token (lines 90-97): the token request.  A
\* rejected request raises in raise_for_status(), a response without id_token
\* raises RuntimeError; main() catches neither.
TokenOutcomes == {"ok", "HTTPError", "RuntimeError"}

ApiToken(which) ==
    /\ phase = 2 /\ pc = which \o "_token"
    /\ requests' = Append(requests, [to |-> "token", page |-> 0])
    /\ \E out \in TokenOutcomes :
          IF out = "ok"
          THEN /\ token' = "id_token" /\ page' = 1 /\ rows' = <<>>
               /\ pc' = which \o "_page" /\ exc' = exc
          ELSE Abort(out) /\ UNCHANGED <<token, page, rows>>
    /\ UNCHANGED <<payload, served, df_rtm_spp_yday_filename, df_api_dam_spp_yday_filename>>
    /\ UNCHANGED <<phase, SLACK_TOKEN, API_USER, API_PASS, API_KEY, driver, quits, fi,
                   visits, paths, production, slack>>
    /\ UNCHANGED <<p1Frames, p1Joins, p2Frames, sheets, dart, normVars>>

\* What a page request can come back with: a payload with its rows, a payload
\* without a "data" member (read as no rows), an error status, a body that is
\* not JSON.
PageOutcomes == {"data", "no_data", "HTTPError", "JSONDecodeError"}

\* Lines 110-114 and 127-131: one turn of the loop.  The page is requested, its
\* rows are appended, and the loop ends on a short page or goes on to the next.
\* The day-ahead fetch never reads a declaration of fields (line 133), and its
\* payloads are taken without one.
ApiPageTurn(which, lens) ==
    /\ phase = 2 /\ pc = which \o "_page"
    /\ requests' = Append(requests, [to |-> which, page |-> page])
    /\ \E out \in PageOutcomes, n \in lens, fields \in FieldDeclarations :
          /\ out # "data" => n = 0 /\ fields = <<>>
          /\ which = "dam" => fields = <<>>
          /\ page = MaxPages => n < PageSize
          /\ IF out \in {"HTTPError", "JSONDecodeError"}
             THEN Abort(out) /\ UNCHANGED <<page, rows, payload, served>>
             ELSE LET data == ApiPage(which, page, n)
                  IN  /\ payload' = [data |-> data,
                                     fields |-> fields]
                      /\ served' = Append(served, [to |-> which, page |-> page, data |-> data,
                                                 fields |-> fields])
                      /\ rows' = rows \o data
                      /\ IF LastPage(data)
                         THEN pc' = which \o "_save" /\ page' = page
                         ELSE pc' = pc /\ page' = page + 1
                      /\ exc' = exc
    /\ UNCHANGED <<token, df_rtm_spp_yday_filename, df_api_dam_spp_yday_filename>>
    /\ UNCHANGED <<phase, SLACK_TOKEN, API_USER, API_PASS, API_KEY, driver, quits, fi,
                   visits, paths, production, slack>>
    /\ UNCHANGED <<p1Frames, p1Joins, p2Frames, sheets, dart, normVars>>

\* Lines 116-117: the column names are the declared fields of the payload in
\* hand (with DataFrame(rows, columns=cols) the table has exactly these
\* columns), or, without any, the keys of the rows.
CsvColumns(fields) == IF fields # <<>> THEN fields ELSE ApiFields

CsvOf(fields, rs) == [returned |-> TRUE, saved |-> TRUE, columns |-> CsvColumns(fields), rows |-> rs]

\* Lines 115-118: no rows, no file; otherwise the rows are saved as a csv file
\* and its name returned.
P2RtmSave ==
    /\ phase = 2 /\ pc = "rtm_save"
    /\ IF rows = <<>>
       THEN df_rtm_spp_yday_filename' = None /\ production' = production
       ELSE /\ df_rtm_spp_yday_filename' = CsvOf(payload.fields, rows)
            /\ production' = production \cup {Artifact("df_rtm_spp_yesterday.csv")}
    /\ pc' = "dam"
    /\ UNCHANGED <<token, page, rows, payload, requests, served, df_api_dam_spp_yday_filename>>
    /\ UNCHANGED <<phase, exc, SLACK_TOKEN, API_USER, API_PASS, API_KEY, driver, quits, fi,
                   visits, paths, slack>>
    /\ UNCHANGED <<p1Frames, p1Joins, p2Frames, sheets, dart, normVars>>

\* Lines 132-134: likewise, with the names taken from the rows.
P2DamSave ==
    /\ phase = 2 /\ pc = "dam_save"
    /\ IF rows = <<>>
       THEN df_api_dam_spp_yday_filename' = None /\ production' = production
       ELSE /\ df_api_dam_spp_yday_filename' = CsvOf(<<>>, rows)
            /\ production' = production \cup {Artifact("df_dam_spp_yesterday.csv")}
    /\ pc' = "read"
    /\ UNCHANGED <<token, page, rows, payload, requests, served, df_rtm_spp_yday_filename>>
    /\ UNCHANGED <<phase, exc, SLACK_TOKEN, API_USER, API_PASS, API_KEY, driver, quits, fi,
                   visits, paths, slack>>
    /\ UNCHANGED <<p1Frames, p1Joins, p2Frames, sheets, dart, normVars>>

\* get_api_rtm_spp_yesterday (lines 102-118), called at line 192.
P2RtmCredentials == ApiCredentials("rtm", "dam")
P2RtmToken == ApiToken("rtm")
P2RtmPage == ApiPageTurn("rtm", ShortLens)
P2RtmLongPage == ApiPageTurn("rtm", PageLens)

\* get_api_dam_spp_yesterday (lines 120-134), called at line 193.
P2DamCredentials == ApiCredentials("dam", "read")
P2DamToken == ApiToken("dam")
P2DamPage == ApiPageTurn("dam", ShortLens)
P2DamLongPage == ApiPageTurn("dam", PageLens)

(***************************************************************************)
(* eepp_phase_2.py: the day-ahead reports as the portal publishes them     *)
(***************************************************************************)
P2Reports == <<"dam_cpc_today", "dam_cpc_yday", "dam_spp_today", "dam_spp_yday">>

\* link_index of the four process_file calls (lines 186-189).
LinkIndex == <<0, 2, 0, 2>>

SppColumns == {"DeliveryDate", "HourEnding", "SettlementPoint", "SettlementPointPrice"}

CpcColumns == {"DeliveryDate", "HourEnding", "AncillaryType", "MCPC"}

\* How the hour-ending is printed, and the defect, if any, of one report: an
\* hour-ending or a date that is no hour-ending or date.
P2Cases ==
    [fmt : {"HH:MM", "H:MM"}, bad : {"none"}, at : {1}]
        \cup [fmt : {"HH:MM"}, bad : {"hour", "date"}, at : {1, Len(P2Reports)}]

\* The hours a day-ahead report lists.
DamHours == <<1, 24>>

DamCsv(i, case) ==
    LET columns == IF i <= 2 THEN CpcColumns ELSE SppColumns
        date == IF i \in {1, 3} THEN D2 ELSE D1
        bad == IF case.at = i THEN case.bad ELSE "none"
    IN  Frame(columns,
              [k \in 1..Len(DamHours) |->
                  [c \in columns |->
                      CASE c = "DeliveryDate" ->
                             IF bad = "date" THEN <<"T", "B", "D">> ELSE RenderUS(date)
                        [] c = "HourEnding" ->
                             IF bad = "hour" THEN TextCell(<<"H", "E">>)
                             ELSE RenderHour(case.fmt, DamHours[k])
                        [] c = "SettlementPoint" -> "LZ_NORTH"
                        [] c = "AncillaryType" -> "RRS"
                        [] OTHER -> 25 + k]])

\* pd.read_csv of a csv file an API fetch function saved: numbers are printed
\* and read back.
ReadApiCsv(file) ==
    Frame({file.columns[i] : i \in 1..Len(file.columns)},
          [k \in 1..Len(file.rows) |->
              [c \in {file.columns[i] : i \in 1..Len(file.columns)} |->
                  CASE c = "deliveryDate" -> file.rows[k].deliveryDate
                    [] c = "deliveryHour" -> ParseInt(IntToStr(file.rows[k].deliveryHour)).val
                    [] c = "deliveryInterval" ->
                           ParseInt(IntToStr(file.rows[k].deliveryInterval)).val
                    [] c = "settlementPoint" -> file.rows[k].settlementPoint
                    [] OTHER -> ParseInt(IntToStr(file.rows[k].settlementPointPrice)).val]])

\* DataFrame.empty
Empty(F) == F.rows = <<>> \/ F.columns = {}

\* Lines 203-205 on one day-ahead table.
DamParses(F) ==
    \A k \in 1..Len(F.rows) :
        NormalizeDam(F.rows[k]["DeliveryDate"], F.rows[k]["HourEnding"]).ok

NormalizedDam(F) ==
    Frame(F.columns \cup {"datetime"},
          [k \in 1..Len(F.rows) |->
              [c \in F.columns \cup {"datetime"} |->
                  CASE c = "DeliveryDate" -> DateCell(ParseDate(F.rows[k]["DeliveryDate"]).val)
                    [] c = "HourEnding" -> HourEndingInt(F.rows[k]["HourEnding"]).val
                    [] c = "datetime" ->
                           NormalizeDam(F.rows[k]["DeliveryDate"], F.rows[k]["HourEnding"]).val
                    [] OTHER -> F.rows[k][c]]])

\* Lines 207-209 on the real-time table.
RtmParses(F) ==
    \A k \in 1..Len(F.rows) :
        NormalizeRtm(F.rows[k]["deliveryDate"], F.rows[k]["deliveryHour"]).ok

NormalizedRtm(F) ==
    Frame(F.columns \cup {"datetime"},
          [k \in 1..Len(F.rows) |->
              [c \in F.columns \cup {"datetime"} |->
                  CASE c = "deliveryDate" -> DateCell(ParseDate(F.rows[k]["deliveryDate"]).val)
                    [] c = "datetime" ->
                           NormalizeRtm(F.rows[k]["deliveryDate"], F.rows[k]["deliveryHour"]).val
                    [] OTHER -> F.rows[k][c]]])

(***************************************************************************)
(* eepp_phase_2.py: plot_dart                                              *)
(***************************************************************************)
\* A number of a price series: NaN, or the ratio num / den (a price is n / 1;
\* the mean of den prices is their sum over den).
NaN == [nan |-> TRUE, num |-> 0, den |-> 1]
Ratio(n, d) == [nan |-> FALSE, num |-> n, den |-> d]

\* Timestamps in time order.
StampBefore(a, b) ==
    LET x == <<a.date.y, a.date.m, a.date.d, a.hour, a.minute>>
        y == <<b.date.y, b.date.m, b.date.d, b.hour, b.minute>>
    IN  \E k \in 1..5 : x[k] < y[k] /\ \A j \in 1..(k - 1) : x[j] = y[j]

RECURSIVE SortStamps(_)
SortStamps(S) ==
    IF S = {} THEN <<>>
    ELSE LET first == CHOOSE t \in S : \A u \in S \ {t} : StampBefore(t, u)
         IN  <<first>> \o SortStamps(S \ {first})

\* df[df[col] == v]
SelectRows(F, col, v) == Frame(F.columns, SelectSeq(F.rows, LAMBDA r : r[col] = v))

\* The sum of column col over the rows k..end of F stamped t.
RECURSIVE SumAt(_, _, _, _)
SumAt(F, col, t, k) ==
    IF k > Len(F.rows) THEN 0
    ELSE (IF F.rows[k]["datetime"] = t THEN F.rows[k][col] ELSE 0) + SumAt(F, col, t, k + 1)

CountAt(F, t) == Cardinality({k \in 1..Len(F.rows) : F.rows[k]["datetime"] = t})

\* Line 153: groupby(["datetime"], as_index=False)[price].mean(): one row per
\* timestamp, in time order, with the mean of the timestamp's prices.
GroupMean(rtm) ==
    LET stamps == SortStamps({rtm.rows[k]["datetime"] : k \in 1..Len(rtm.rows)})
    IN  [i \in 1..Len(stamps) |->
            [datetime |-> stamps[i],
             settlementPointPrice |->
                 Ratio(SumAt(rtm, "settlementPointPrice", stamps[i], 1), CountAt(rtm, stamps[i]))]]

\* Line 154: reindex needs distinct labels in the index it replaces.
IndexUnique(dam) ==
    \A i, j \in 1..Len(dam.rows) : dam.rows[i]["datetime"] = dam.rows[j]["datetime"] => i = j

\* Line 154: set_index("datetime").reindex(rtm_hourly["datetime"]).reset_index():
\* one row per timestamp of rtm_hourly, in its order, with the day-ahead price
\* at that timestamp, NaN where the day-ahead series has none.
Reindex(dam, rtm_hourly) ==
    [i \in 1..Len(rtm_hourly) |->
        [datetime |-> rtm_hourly[i].datetime,
         SettlementPointPrice |->
             IF \E k \in 1..Len(dam.rows) : dam.rows[k]["datetime"] = rtm_hourly[i].datetime
             THEN Ratio(dam.rows[CHOOSE k \in 1..Len(dam.rows) :
                                     dam.rows[k]["datetime"] = rtm_hourly[i].datetime]
                            ["SettlementPointPrice"], 1)
             ELSE NaN]]

\* Line 155: the difference of two numbers; NaN when either is.
Minus(a, b) ==
    IF a.nan \/ b.nan THEN NaN ELSE Ratio(a.num * b.den - b.num * a.den, a.den * b.den)

\* Lines 151-155: the three series plot_dart draws.
PlotDart(dam_yday, rtm_yday, sp) ==
    LET rtm_hourly == GroupMean(SelectRows(rtm_yday, "settlementPoint", sp))
        dam == Reindex(SelectRows(dam_yday, "SettlementPoint", sp), rtm_hourly)
    IN  [rtm_hourly |-> rtm_hourly,
         dam |-> dam,
         spread |-> [i \in 1..Len(rtm_hourly) |->
                        Minus(dam[i].SettlementPointPrice, rtm_hourly[i].settlementPointPrice)]]

(***************************************************************************)
(* eepp_phase_2.py: main()                                                 *)
(***************************************************************************)
\* run_phase_2 (13:05): a fresh process, which reads SLACK_TOKEN and the three
\* API settings on import.
SvcRunPhase2 ==
    /\ phase = 0 /\ pc = "idle"
    /\ phase' = 2 /\ pc' = "start"
    /\ SLACK_TOKEN' \in BOOLEAN
    /\ API_USER' \in CredentialValues
    /\ API_PASS' \in CredentialValues
    /\ API_KEY' \in CredentialValues
    /\ UNCHANGED <<exc, driver, quits, fi, visits, paths, production, slack>>
    /\ UNCHANGED <<token, page, rows, payload, requests, served,
                   df_rtm_spp_yday_filename, df_api_dam_spp_yday_filename>>
    /\ UNCHANGED <<p1Frames, p1Joins, p2Frames, sheets, dart, normVars>>

\* Lines 180-184: directories, archive housekeeping, the browser session.
P2Start ==
    /\ phase = 2 /\ pc = "start"
    /\ \E created \in BOOLEAN :
          IF created
          THEN driver' = "open" /\ pc' = "fetch" /\ fi' = 1 /\ exc' = exc
          ELSE driver' = driver /\ Abort("WebDriverException") /\ fi' = fi
    /\ UNCHANGED <<phase, SLACK_TOKEN, quits, visits, paths, production, slack>>
    /\ UNCHANGED <<apiVars, p1Frames, p1Joins, p2Frames, sheets, dart, normVars>>

\* process_file (lines 85-88), called in the try block (lines 186-189): the
\* link_index-th "zip" link of the page (IndexError when the page lists fewer),
\* the download, the extraction of every entry; the first entry's path is
\* returned.
P2ProcessFile ==
    /\ phase = 2 /\ pc = "fetch" /\ fi \in 1..Len(P2Reports)
    /\ \E out \in FetchOutcomes \cup {"IndexError"}, entries \in 0..MaxEntries :
          LET report == P2Reports[fi]
              raised == IF out # "ok" THEN out
                        ELSE IF entries = 0 THEN "IndexError" ELSE ""
          IN  /\ out = "IndexError" => LinkIndex[fi] > 0
              /\ out # "ok" => entries = 0
              /\ entries > 1 => \A i \in 1..Len(visits) : visits[i].entries <= 1
              /\ visits' = Append(visits, [report |-> report, driver |-> driver,
                                           raised |-> raised, entries |-> entries])
              /\ IF raised # ""
                 THEN /\ exc' = raised /\ pc' = "quit"
                      /\ UNCHANGED <<fi, paths, production>>
                 ELSE /\ production' = production \cup ExtractedFiles(report, entries)
                      /\ paths' = [paths EXCEPT ![report] = Extracted(report, 1)]
                      /\ fi' = fi + 1
                      /\ pc' = IF fi = Len(P2Reports) THEN "quit" ELSE "fetch"
                      /\ exc' = exc
    /\ UNCHANGED <<phase, SLACK_TOKEN, driver, quits, slack>>
    /\ UNCHANGED <<apiVars, p1Frames, p1Joins, p2Frames, sheets, dart, normVars>>

\* A variant in which the session is closed after the try block and not in a
\* finally block: an exception of a fetch leaves main() past the close.
P2QuitAfterTry ==
    /\ phase = 2 /\ pc = "quit"
    /\ IF exc # ""
       THEN driver' = driver /\ quits' = quits /\ pc' = "aborted"
       ELSE driver' = "closed" /\ quits' = quits + 1 /\ pc' = "rtm"
    /\ UNCHANGED <<phase, exc, SLACK_TOKEN, fi, visits, paths, production, slack>>
    /\ UNCHANGED <<apiVars, p1Frames, p1Joins, p2Frames, sheets, dart, normVars>>

\* Lines 190-191, the finally block.
P2Quit ==
    /\ phase = 2 /\ pc = "quit"
    /\ driver' = "closed" /\ quits' = quits + 1
    /\ pc' = IF exc # "" THEN "aborted" ELSE "rtm"
    /\ UNCHANGED <<phase, exc, SLACK_TOKEN, fi, visits, paths, production, slack>>
    /\ UNCHANGED <<apiVars, p1Frames, p1Joins, p2Frames, sheets, dart, normVars>>

\* Lines 194-201: the four day-ahead files are read; the API files are read
\* when there are any, and stand as empty frames otherwise.
P2ReadCsv ==
    /\ phase = 2 /\ pc = "read"
    /\ \E case \in P2Cases :
          /\ df_dam_cpc_today' = DamCsv(1, case)
          /\ df_dam_cpc_yday' = DamCsv(2, case)
          /\ df_dam_spp_today' = DamCsv(3, case)
          /\ df_dam_spp_yday' = DamCsv(4, case)
    /\ df_rtm_spp_yday' =
          IF df_rtm_spp_yday_filename.saved THEN ReadApiCsv(df_rtm_spp_yday_filename)
          ELSE NoFrame
    /\ df_api_dam_spp_yday' =
          IF df_api_dam_spp_yday_filename.saved THEN ReadApiCsv(df_api_dam_spp_yday_filename)
          ELSE NoFrame
    /\ pc' = "normalize_dam"
    /\ UNCHANGED <<phase, exc, SLACK_TOKEN, driver, quits, fi, visits, paths, production, slack>>
    /\ UNCHANGED <<apiVars, p1Frames, p1Joins, sheets, dart, normVars>>

\* Lines 202-205: date, hour-ending and timestamp of the four day-ahead
\* tables, in turn; a cell that does not parse raises ValueError.
P2NormalizeDam ==
    /\ phase = 2 /\ pc = "normalize_dam"
    /\ IF /\ DamParses(df_dam_cpc_today) /\ DamParses(df_dam_cpc_yday)
          /\ DamParses(df_dam_spp_today) /\ DamParses(df_dam_spp_yday)
       THEN /\ df_dam_cpc_today' = NormalizedDam(df_dam_cpc_today)
            /\ df_dam_cpc_yday' = NormalizedDam(df_dam_cpc_yday)
            /\ df_dam_spp_today' = NormalizedDam(df_dam_spp_today)
            /\ df_dam_spp_yday' = NormalizedDam(df_dam_spp_yday)
            /\ pc' = "normalize_rtm" /\ exc' = exc
       ELSE /\ Abort("ValueError")
            /\ UNCHANGED <<df_dam_cpc_today, df_dam_cpc_yday, df_dam_spp_today, df_dam_spp_yday>>
    /\ UNCHANGED <<df_rtm_spp_yday, df_api_dam_spp_yday>>
    /\ UNCHANGED <<phase, SLACK_TOKEN, driver, quits, fi, visits, paths, production, slack>>
    /\ UNCHANGED <<apiVars, p1Frames, p1Joins, sheets, dart, normVars>>

\* Lines 206-209: the real-time table, when there is one.
P2NormalizeRtm ==
    /\ phase = 2 /\ pc = "normalize_rtm"
    /\ IF Empty(df_rtm_spp_yday)
       THEN pc' = "excel" /\ UNCHANGED <<exc, df_rtm_spp_yday>>
       ELSE IF ~({"deliveryDate", "deliveryHour"} \subseteq df_rtm_spp_yday.columns)
       THEN Abort("KeyError") /\ UNCHANGED df_rtm_spp_yday
       ELSE IF ~RtmParses(df_rtm_spp_yday)
       THEN Abort("ValueError") /\ UNCHANGED df_rtm_spp_yday
       ELSE /\ df_rtm_spp_yday' = NormalizedRtm(df_rtm_spp_yday)
            /\ pc' = "excel" /\ exc' = exc
    /\ UNCHANGED <<df_dam_cpc_today, df_dam_cpc_yday, df_dam_spp_today, df_dam_spp_yday,
                   df_api_dam_spp_yday>>
    /\ UNCHANGED <<phase, SLACK_TOKEN, driver, quits, fi, visits, paths, production, slack>>
    /\ UNCHANGED <<apiVars, p1Frames, p1Joins, sheets, dart, normVars>>

\* Lines 210-217: the workbook, one sheet per day-ahead table and one per API
\* table that is not empty.
P2Excel ==
    /\ phase = 2 /\ pc = "excel"
    /\ sheets' = {"DAM_CPC_Today", "DAM_CPC_Yesterday", "DAM_SPP_Today", "DAM_SPP_Yesterday"}
            \cup (IF Empty(df_rtm_spp_yday) THEN {} ELSE {"RTM_SPP_Yesterday"})
            \cup (IF Empty(df_api_dam_spp_yday) THEN {} ELSE {"DAM_SPP_Yesterday_API"})
    /\ production' = production \cup {Artifact("workbook")}
    /\ pc' = "plot"
    /\ UNCHANGED <<phase, exc, SLACK_TOKEN, driver, quits, fi, visits, paths, slack>>
    /\ UNCHANGED <<apiVars, p1Frames, p1Joins, p2Frames, dart, normVars>>

\* Line 218: plot_all (lines 162-177) draws the day-ahead panels, then the DART
\* panel when there is a real-time table (plot_dart, which raises ValueError
\* when the day-ahead series lists a timestamp twice), and saves the chart.
P2Plot ==
    /\ phase = 2 /\ pc = "plot"
    /\ IF Empty(df_rtm_spp_yday)
       THEN /\ dart' = dart
            /\ production' = production \cup {Artifact("chart")}
            /\ pc' = "notify" /\ exc' = exc
       ELSE IF ~IndexUnique(SelectRows(df_dam_spp_yday, "SettlementPoint", "LZ_NORTH"))
       THEN /\ Abort("ValueError: cannot reindex on an axis with duplicate labels")
            /\ UNCHANGED <<dart, production>>
       ELSE /\ dart' = PlotDart(df_dam_spp_yday, df_rtm_spp_yday, "LZ_NORTH")
            /\ production' = production \cup {Artifact("chart")}
            /\ pc' = "notify" /\ exc' = exc
    /\ UNCHANGED <<phase, SLACK_TOKEN, driver, quits, fi, visits, paths, slack>>
    /\ UNCHANGED <<apiVars, p1Frames, p1Joins, p2Frames, sheets, normVars>>

\* Lines 219-222: the notification, then the end of main().
P2Notify ==
    /\ phase = 2 /\ pc = "notify"
    /\ slack' \in SlackOutcomes
    /\ pc' = "done"
    /\ UNCHANGED <<phase, exc, SLACK_TOKEN, driver, quits, fi, visits, paths, production>>
    /\ UNCHANGED <<apiVars, p1Frames, p1Joins, p2Frames, sheets, dart, normVars>>

Phase2 ==
    \/ P2Start \/ P2ProcessFile \/ P2Quit
    \/ P2RtmCredentials \/ P2RtmToken \/ P2RtmPage \/ P2RtmSave
    \/ P2DamCredentials \/ P2DamToken \/ P2DamPage \/ P2DamSave
    \/ P2ReadCsv \/ P2NormalizeDam \/ P2NormalizeRtm
    \/ P2Excel \/ P2Plot \/ P2Notify

vars == <<normVars, runVars, p1Frames, p1Joins, apiVars, p2Frames, sheets, dart>>

Init == RunIdle /\ NormIdle

Next == SvcRunPhase1 \/ SvcRunPhase2 \/ SvcCommandReturns \/ Phase1 \/ Phase2

Spec == Init /\ [][Next]_vars

(***************************************************************************)
(* The joins and metrics of Phase 1 on longer reports: main() from line    *)
(* 155, all five files fetched and the session closed                      *)
(***************************************************************************)
InitJoin ==
    /\ NormIdle
    /\ phase = 1 /\ pc = "read" /\ exc = ""
    /\ SLACK_TOKEN = FALSE
    /\ driver = "closed" /\ quits = 1 /\ fi = Len(P1Reports) + 1
    /\ visits = [i \in 1..Len(P1Reports) |->
                    [report |-> P1Reports[i], driver |-> "open", raised |-> "",
                     entries |-> IF P1Reports[i] = "mora" THEN 0 ELSE 1]]
    /\ paths = [r \in AllReports |->
                   IF r = "mora" THEN Extracted(r, 0)
                   ELSE IF \E i \in 1..Len(P1Reports) : P1Reports[i] = r THEN Extracted(r, 1)
                   ELSE NoFile]
    /\ production = {IF P1Reports[i] = "mora" THEN Extracted("mora", 0)
                     ELSE Extracted(P1Reports[i], 1) : i \in 1..Len(P1Reports)}
    /\ slack = "none"
    /\ FrameIdle
    /\ ApiIdle

NextJoin == P1ReadLongReports \/ P1MergeWindSolar \/ P1MergeHroc \/ P1MergeSys \/ P1Derive

SpecJoin == InitJoin /\ [][NextJoin]_vars

(***************************************************************************)
(* The API fetches of Phase 2 against a server of up to MaxPages pages:    *)
(* main() from line 192, the four reports fetched, the session closed and  *)
(* the three API settings present                                          *)
(***************************************************************************)
InitApi ==
    /\ NormIdle
    /\ phase = 2 /\ pc = "rtm" /\ exc = ""
    /\ SLACK_TOKEN = FALSE
    /\ driver = "closed" /\ quits = 1 /\ fi = Len(P2Reports) + 1
    /\ visits = [i \in 1..Len(P2Reports) |->
                    [report |-> P2Reports[i], driver |-> "open", raised |-> "", entries |-> 1]]
    /\ paths = [r \in AllReports |->
                   IF \E i \in 1..Len(P2Reports) : P2Reports[i] = r THEN Extracted(r, 1)
                   ELSE NoFile]
    /\ production = {Extracted(P2Reports[i], 1) : i \in 1..Len(P2Reports)}
    /\ slack = "none"
    /\ FrameIdle
    /\ API_USER = "set" /\ API_PASS = "set" /\ API_KEY = "set"
    /\ token = "" /\ page = 0 /\ rows = <<>>
    /\ payload = [data |-> <<>>, fields |-> <<>>]
    /\ requests = <<>> /\ served = <<>>
    /\ df_rtm_spp_yday_filename = NotReturned
    /\ df_api_dam_spp_yday_filename = NotReturned
    /\ df_dam_cpc_today = NoFrame /\ df_dam_cpc_yday = NoFrame
    /\ df_dam_spp_today = NoFrame /\ df_dam_spp_yday = NoFrame
    /\ df_rtm_spp_yday = NoFrame /\ df_api_dam_spp_yday = NoFrame
    /\ sheets = {}
    /\ dart = NoDart

NextApi ==
    \/ P2RtmCredentials \/ P2RtmToken \/ P2RtmLongPage \/ P2RtmSave
    \/ P2DamCredentials \/ P2DamToken \/ P2DamLongPage \/ P2DamSave

SpecApi == InitApi /\ [][NextApi]_vars

(***************************************************************************)
(* The DART panel of Phase 2 on day-ahead and real-time tables of several  *)
(* hours: main() from line 218, the tables read and normalized and the     *)
(* workbook written                                                        *)
(***************************************************************************)
\* The hours the two price tables can list.
DartHours == <<5, 6>>

\* The prices of the intervals of an hour, two ways: 28, 29, 33 (mean 30) and
\* 21, 24, 29 (means that are no whole numbers).
IntervalPrice(prices, j) ==
    IF prices = "even"
    THEN (CASE j = 1 -> 28 [] j = 2 -> 29 [] j = 3 -> 33 [] OTHER -> 30)
    ELSE 20 + j * j

\* The rows the API served for the real-time table: one LZ_HOUSTON row when
\* other, then perHour[k] interval rows of LZ_NORTH for the k-th hour.
RECURSIVE DartRtmRows(_, _, _)
DartRtmRows(perHour, prices, k) ==
    IF k > Len(DartHours) THEN <<>>
    ELSE [j \in 1..perHour[k] |->
             [of |-> "rtm", page |-> 1, idx |-> j,
              deliveryDate |-> RenderISO(D1),
              deliveryHour |-> DartHours[k],
              deliveryInterval |-> j,
              settlementPoint |-> "LZ_NORTH",
              settlementPointPrice |-> IntervalPrice(prices, j)]]
         \o DartRtmRows(perHour, prices, k + 1)

DartRtmOther ==
    [of |-> "rtm", page |-> 1, idx |-> 0,
     deliveryDate |-> RenderISO(D1), deliveryHour |-> DartHours[1], deliveryInterval |-> 1,
     settlementPoint |-> "LZ_HOUSTON", settlementPointPrice |-> 40]

\* The rows of the DAM_SPP_Yesterday report: one LZ_HOUSTON row when other,
\* then perHour[k] rows of LZ_NORTH for the k-th hour (2: the hour is listed
\* twice).
RECURSIVE DartDamRows(_, _)
DartDamRows(perHour, k) ==
    IF k > Len(DartHours) THEN <<>>
    ELSE [c \in 1..perHour[k] |->
             [col \in SppColumns |->
                 CASE col = "DeliveryDate" -> RenderUS(D1)
                   [] col = "HourEnding" -> RenderHour("HH:MM", DartHours[k])
                   [] col = "SettlementPoint" -> "LZ_NORTH"
                   [] OTHER -> 30 + 2 * (k - 1) + (c - 1)]]
         \o DartDamRows(perHour, k + 1)

DartDamOther ==
    [col \in SppColumns |->
        CASE col = "DeliveryDate" -> RenderUS(D1)
          [] col = "HourEnding" -> RenderHour("HH:MM", DartHours[1])
          [] col = "SettlementPoint" -> "LZ_HOUSTON"
          [] OTHER -> 41]

InitDart ==
    /\ NormIdle
    /\ phase = 2 /\ pc = "plot" /\ exc = ""
    /\ SLACK_TOKEN = FALSE
    /\ driver = "closed" /\ quits = 1 /\ fi = Len(P2Reports) + 1
    /\ visits = [i \in 1..Len(P2Reports) |->
                    [report |-> P2Reports[i], driver |-> "open", raised |-> "", entries |-> 1]]
    /\ paths = [r \in AllReports |->
                   IF \E i \in 1..Len(P2Reports) : P2Reports[i] = r THEN Extracted(r, 1)
                   ELSE NoFile]
    /\ slack = "none"
    /\ FrameIdle
    /\ API_USER = "set" /\ API_PASS = "set" /\ API_KEY = "set"
    /\ token = "id_token" /\ page = 1 /\ rows = <<>>
    /\ payload = [data |-> <<>>, fields |-> <<>>]
    /\ df_api_dam_spp_yday_filename = None
    /\ df_api_dam_spp_yday = NoFrame
    /\ df_dam_cpc_today = NormalizedDam(DamCsv(1, [fmt |-> "HH:MM", bad |-> "none", at |-> 1]))
    /\ df_dam_cpc_yday = NormalizedDam(DamCsv(2, [fmt |-> "HH:MM", bad |-> "none", at |-> 1]))
    /\ df_dam_spp_today = NormalizedDam(DamCsv(3, [fmt |-> "HH:MM", bad |-> "none", at |-> 1]))
    /\ \E damPerHour \in [1..Len(DartHours) -> 0..2], damOther \in BOOLEAN :
          df_dam_spp_yday =
              NormalizedDam(Frame(SppColumns,
                                  (IF damOther THEN <<DartDamOther>> ELSE <<>>)
                                      \o DartDamRows(damPerHour, 1)))
    /\ \E rtmPerHour \in [1..Len(DartHours) -> 0..MaxIntervals],
          prices \in {"even", "uneven"}, rtmOther \in BOOLEAN :
          LET served_rows == (IF rtmOther THEN <<DartRtmOther>> ELSE <<>>)
                                 \o DartRtmRows(rtmPerHour, prices, 1)
          IN  /\ requests = <<[to |-> "token", page |-> 0], [to |-> "rtm", page |-> 1],
                              [to |-> "token", page |-> 0], [to |-> "dam", page |-> 1]>>
              /\ served = <<[to |-> "rtm", page |-> 1, data |-> served_rows, fields |-> <<>>],
                            [to |-> "dam", page |-> 1, data |-> <<>>, fields |-> <<>>]>>
              /\ df_rtm_spp_yday_filename =
                    IF served_rows = <<>> THEN None ELSE CsvOf(<<>>, served_rows)
              /\ df_rtm_spp_yday =
                    IF served_rows = <<>> THEN NoFrame
                    ELSE NormalizedRtm(ReadApiCsv(CsvOf(<<>>, served_rows)))
              /\ production =
                    {Extracted(P2Reports[i], 1) : i \in 1..Len(P2Reports)}
                        \cup {Artifact("workbook")}
                        \cup (IF served_rows = <<>> THEN {}
                              ELSE {Artifact("df_rtm_spp_yesterday.csv")})
              /\ sheets =
                    {"DAM_CPC_Today", "DAM_CPC_Yesterday", "DAM_SPP_Today", "DAM_SPP_Yesterday"}
                        \cup (IF served_rows = <<>> THEN {} ELSE {"RTM_SPP_Yesterday"})
    /\ dart = NoDart

NextDart == P2Plot \/ P2Notify

SpecDart == InitDart /\ [][NextDart]_vars

(***************************************************************************)
(* TimeNormalizer check: one raw cell, converted by each script's code     *)
(***************************************************************************)
InitNorm ==
    /\ RunIdle
    /\ nIn \in [date : NormDates, fmt : HourFormats, he : HourEndings]
    /\ nOut = [by |-> "none", res |-> Ok(NoStamp)]

\* eepp_phase_1.py: df_sys, lines 157, 162 and 182.
NormPhase1 ==
    /\ nOut.by = "none"
    /\ nOut' = [by |-> "phase1",
                res |-> NormalizeSys(RenderUS(nIn.date), RenderHour(nIn.fmt, nIn.he))]
    /\ UNCHANGED <<nIn, runVars, p1Frames, p1Joins, apiVars, p2Frames, sheets, dart>>

\* eepp_phase_2.py: the loop over the four day-ahead tables, lines 202-205.
NormPhase2Dam ==
    /\ nOut.by = "none"
    /\ nOut' = [by |-> "phase2_dam",
                res |-> NormalizeDam(RenderUS(nIn.date), RenderHour(nIn.fmt, nIn.he))]
    /\ UNCHANGED <<nIn, runVars, p1Frames, p1Joins, apiVars, p2Frames, sheets, dart>>

\* eepp_phase_2.py: the real-time table, lines 206-209 (deliveryHour is numeric).
NormPhase2Rtm ==
    /\ nOut.by = "none"
    /\ nIn.fmt = "int"
    /\ nOut' = [by |-> "phase2_rtm", res |-> NormalizeRtm(RenderISO(nIn.date), nIn.he)]
    /\ UNCHANGED <<nIn, runVars, p1Frames, p1Joins, apiVars, p2Frames, sheets, dart>>

NextNorm == NormPhase1 \/ NormPhase2Dam \/ NormPhase2Rtm


SpecNorm == InitNorm /\ [][NextNorm]_vars

\* C1: for every delivery date D and hour-ending H in 1..24, given as an integer
\* or as "H:MM"/"HH:MM" text, the timestamp each script computes is D at clock
\* hour H-1, minute 00: the conversion never raises and never leaves date D.
C1_NormalizeTotal ==
    nOut.by \in {"phase1", "phase2_dam", "phase2_rtm"} =>
        /\ nOut.res.ok
        /\ nOut.res.val = Stamp(nIn.date, nIn.he - 1, 0)

\* Hour-ending 24 of a date converted to 23:00 of that same date.
C1_Witness ==
    /\ nIn.he = 24 /\ nIn.fmt = "HH:MM" /\ nOut.by = "phase2_dam"
    /\ nOut.res.ok /\ nOut.res.val = Stamp(nIn.date, 23, 0)


(***************************************************************************)
(* PagedApiClient: the pages asked for and the rows kept                   *)
(***************************************************************************)
RECURSIVE ConcatPages(_, _)
ConcatPages(sv, i) == IF i > Len(sv) THEN <<>> ELSE sv[i].data \o ConcatPages(sv, i + 1)

FileOf(which) ==
    IF which = "rtm" THEN df_rtm_spp_yday_filename ELSE df_api_dam_spp_yday_filename

\* The loop of one fetch function has ended without an exception.
FetchOver(which) == pc = which \o "_save" \/ FileOf(which).returned

\* C2: each fetch function asks for pages 1, 2, ... in that order; every page
\* served before the last holds exactly PageSize rows; the loop is over exactly
\* when a page with fewer rows (none included) has been served, after which no
\* further request is sent; the rows kept, and the rows of the saved file, are
\* the served pages' rows in the order the server returned them.
C2_StopsAtFirstShortPage ==
    \A which \in {"rtm", "dam"} :
        LET reqs == RequestsTo(which)
            sv == ServedBy(which)
            k == Len(sv)
        IN  /\ \A i \in 1..Len(reqs) : reqs[i].page = i
            /\ \A i \in 1..k : sv[i].page = i
            /\ \A i \in 1..(k - 1) : Len(sv[i].data) = PageSize
            /\ FetchOver(which) => k >= 1 /\ Len(sv[k].data) < PageSize /\ Len(reqs) = k
            /\ (k >= 1 /\ Len(sv[k].data) < PageSize) => FetchOver(which) /\ Len(reqs) = k
            /\ pc = which \o "_save" => rows = ConcatPages(sv, 1)
            /\ FileOf(which).saved => FileOf(which).rows = ConcatPages(sv, 1)

\* Two full pages and a page of PageSize - 1 rows: three requests, and a file
\* of all their rows.
C2_Witness ==
    /\ Len(RequestsTo("rtm")) = 3
    /\ Len(ServedBy("rtm")) = 3
    /\ Len(ServedBy("rtm")[3].data) = PageSize - 1
    /\ df_rtm_spp_yday_filename.saved
    /\ Len(df_rtm_spp_yday_filename.rows) = 3 * PageSize - 1

(***************************************************************************)
(* Phase 2 without, or with failing, API access                            *)
(***************************************************************************)
CredentialMissing == \E c \in {API_USER, API_PASS, API_KEY} : c \in {"none", "empty"}

FetchFailed == \E i \in 1..Len(visits) : visits[i].raised # ""

NoArtifact ==
    /\ Artifact("chart") \notin production
    /\ Artifact("workbook") \notin production
    /\ slack = "none"

DamTablesNormalized ==
    /\ "datetime" \in df_dam_cpc_today.columns /\ "datetime" \in df_dam_cpc_yday.columns
    /\ "datetime" \in df_dam_spp_today.columns /\ "datetime" \in df_dam_spp_yday.columns

\* C3: in a Phase 2 run in which one of the three API settings is absent or
\* empty, no request is ever sent (no token request, no page request), both
\* fetch functions return None, no exception of the run comes from the API, and
\* the run that gets past its required reports normalizes the four day-ahead
\* tables, writes the workbook with their four sheets, saves the chart and
\* reaches the notification.
C3_NoCredentialsNoRequest ==
    (phase = 2 /\ CredentialMissing) =>
        /\ requests = <<>> /\ served = <<>> /\ token = ""
        /\ pc \notin {"rtm_token", "rtm_page", "rtm_save", "dam_token", "dam_page", "dam_save"}
        /\ exc \notin {"RuntimeError", "JSONDecodeError"}
        /\ exc = "HTTPError" => FetchFailed
        /\ pc \in {"dam", "read", "normalize_dam", "normalize_rtm", "excel", "plot", "notify",
                   "done"} => df_rtm_spp_yday_filename = None
        /\ pc \in {"read", "normalize_dam", "normalize_rtm", "excel", "plot", "notify", "done"}
               => df_api_dam_spp_yday_filename = None
        /\ pc \in {"normalize_rtm", "excel", "plot", "notify", "done"} => DamTablesNormalized
        /\ pc \in {"plot", "notify", "done"} =>
               /\ Artifact("workbook") \in production
               /\ sheets = {"DAM_CPC_Today", "DAM_CPC_Yesterday", "DAM_SPP_Today",
                            "DAM_SPP_Yesterday"}
        /\ pc \in {"notify", "done"} => Artifact("chart") \in production
        /\ pc = "done" => slack \in {"sent", "error", "skipped"}

\* A run with an empty subscription key that ends with workbook, chart and a
\* sent notification, and never sent a request.
C3_Witness ==
    /\ phase = 2 /\ pc = "done"
    /\ API_USER = "set" /\ API_PASS = "set" /\ API_KEY = "empty"
    /\ requests = <<>>
    /\ df_rtm_spp_yday_filename = None
    /\ Artifact("workbook") \in production /\ Artifact("chart") \in production
    /\ slack = "sent"

\* C4: a Phase 2 run is never aborted while the real-time fetch is under way
\* (a request has been sent and get_api_rtm_spp_yesterday has not returned).
C4_RtmFetchNeverAborts ==
    (phase = 2 /\ requests # <<>> /\ df_rtm_spp_yday_filename = NotReturned) => pc # "aborted"

(***************************************************************************)
(* Failures of required sources                                            *)
(***************************************************************************)
\* C5: in a run of Phase 1 or Phase 2 in which a fetch of a required report
\* raised, or a timestamp did not parse (ValueError), no chart and no workbook
\* is written and no notification is attempted; no report is fetched twice and
\* none after a failed fetch; and a run that wrote the chart or the workbook
\* fetched every report and stamped every table.
C5_RequiredFailureAborts ==
    /\ (phase \in {1, 2} /\ (FetchFailed \/ exc = "ValueError")) => NoArtifact
    /\ \A i, j \in 1..Len(visits) : visits[i].report = visits[j].report => i = j
    /\ \A i \in 1..(Len(visits) - 1) : visits[i].raised = ""
    /\ (phase = 1 /\ ~NoArtifact) =>
           /\ Len(visits) = Len(P1Reports) /\ ~FetchFailed
           /\ "datetime" \in merged.columns
    /\ (phase = 2 /\ ~NoArtifact) =>
           /\ Len(visits) = Len(P2Reports) /\ ~FetchFailed
           /\ DamTablesNormalized

\* The download of the third report of Phase 1 is refused: the run is over,
\* the session closed, nothing written, the report fetched once.
C5_Witness ==
    /\ phase = 1 /\ pc = "aborted" /\ exc = "HTTPError"
    /\ Len(visits) = 3 /\ visits[3].raised = "HTTPError"
    /\ driver = "closed"
    /\ NoArtifact

(***************************************************************************)
(* TableJoiner: the three joins of Phase 1                                 *)
(***************************************************************************)
\* The (delivery date, hour-ending) keys on the rows of a frame.
KeyAt(F, i, dcol, hcol) == <<F.rows[i][dcol], F.rows[i][hcol]>>
KeysOf(F, dcol, hcol) == {KeyAt(F, i, dcol, hcol) : i \in 1..Len(F.rows)}

\* The three joins have been made.
JoinedP1 == phase = 1 /\ pc \in {"derive", "plot", "excel", "notify", "done"}

\* C6: once the three joins are made, a (delivery date, hour-ending) key is on
\* a row of the joined table if and only if it is on a row of each of the four
\* tables joined: solar, wind, outage report, system forecast.
C6_InnerJoinIntersection ==
    JoinedP1 =>
        KeysOf(merged, "DeliveryDate", "HOUR_ENDING") =
            KeysOf(df_solar, "DELIVERY_DATE", "HOUR_ENDING")
                \cap KeysOf(df_wind, "DELIVERY_DATE", "HOUR_ENDING")
                \cap KeysOf(df_hroc, "Date", "HourEnding")
                \cap KeysOf(df_sys, "DeliveryDate", "HOUR_ENDING")

\* Three tables with the same two keys and an outage report with one of them:
\* one row.
C6_Witness ==
    /\ JoinedP1
    /\ Cardinality(KeysOf(df_solar, "DELIVERY_DATE", "HOUR_ENDING")) = 2
    /\ KeysOf(df_wind, "DELIVERY_DATE", "HOUR_ENDING")
           = KeysOf(df_solar, "DELIVERY_DATE", "HOUR_ENDING")
    /\ KeysOf(df_sys, "DeliveryDate", "HOUR_ENDING")
           = KeysOf(df_solar, "DELIVERY_DATE", "HOUR_ENDING")
    /\ Len(df_hroc.rows) = 1
    /\ KeysOf(df_hroc, "Date", "HourEnding") \subseteq
           KeysOf(df_solar, "DELIVERY_DATE", "HOUR_ENDING")
    /\ Len(merged.rows) = 1

\* The rows of L whose key is on a row of R.
SharedRows(L, ld, lh, R, rd, rh) ==
    Cardinality({i \in 1..Len(L.rows) : KeyAt(L, i, ld, lh) \in KeysOf(R, rd, rh)})

Min(a, b) == IF a <= b THEN a ELSE b

AtMostSharedRows(res, L, ld, lh, R, rd, rh) ==
    Len(res.rows) <= Min(SharedRows(L, ld, lh, R, rd, rh), SharedRows(R, rd, rh, L, ld, lh))

\* Each join step has been made when its result has columns.
Step1Made == phase = 1 /\ wind_solar.columns # {}
Step2Made == phase = 1 /\ wind_solar_hroc.columns # {}
Step3Made == phase = 1 /\ merged.columns # {}

\* C7: after every join step, whatever the inputs, the result has at
\* most as many rows as the smaller of the two inputs' numbers of rows whose
\* key is on a row of the other input.
C7_AtMostMinSharedRows ==
    /\ Step1Made =>
           AtMostSharedRows(wind_solar, df_solar, "DELIVERY_DATE", "HOUR_ENDING",
                            df_wind, "DELIVERY_DATE", "HOUR_ENDING")
    /\ Step2Made =>
           AtMostSharedRows(wind_solar_hroc, wind_solar, "DELIVERY_DATE", "HOUR_ENDING",
                            df_hroc, "Date", "HourEnding")
    /\ Step3Made =>
           AtMostSharedRows(merged, df_sys, "DeliveryDate", "HOUR_ENDING",
                            wind_solar_hroc, "DELIVERY_DATE", "HOUR_ENDING")

\* C8: when the joined table of Phase 1 has no row, no derived metric is
\* computed on it, and no chart, workbook or notification follows.
C8_EmptyJoinIsFatal ==
    (Step3Made /\ merged.rows = <<>>) =>
        /\ "Forecasted Thermal Reserve Margin" \notin merged.columns
        /\ pc \notin {"plot", "excel", "notify", "done"}
        /\ NoArtifact

\* C9: when the solar and the wind report both carry a measurement column of
\* the same name, the run does not get past their join, and no joined table
\* carries suffixed copies of the column.
C9_AmbiguousColumnFails ==
    (phase = 1 /\ (df_solar.columns \cap df_wind.columns) \ {"DELIVERY_DATE", "HOUR_ENDING"} # {})
        => /\ pc \notin {"merge_hroc", "merge_sys", "derive", "plot", "excel", "notify", "done"}
           /\ "COP_HSL_SYSTEM_WIDE_x" \notin wind_solar.columns
           /\ "COP_HSL_SYSTEM_WIDE_y" \notin wind_solar.columns

(***************************************************************************)
(* MetricDeriver: the derived columns of Phase 1                           *)
(***************************************************************************)
\* The cells of column col on the rows of F with the key of row r of merged.
CellsFor(F, dcol, hcol, col, r) ==
    {F.rows[j][col] : j \in {n \in 1..Len(F.rows) :
                                KeyAt(F, n, dcol, hcol) = <<r["DeliveryDate"], r["HOUR_ENDING"]>>}}

\* C10: on every row of the joined table with its derived columns, the thermal
\* reserve margin is (capacity - the four zonal outages) - (demand - (wind +
\* solar)); the capacity is the MORA cell on every row; wind, solar, demand and
\* outages are cells of the wind, solar, system forecast and outage reports for
\* the row's key; dispatchable supply equals net load.
C10_ThermalReserveMargin ==
    (phase = 1 /\ pc \in {"plot", "excel", "notify", "done"}) =>
        \A i \in 1..Len(merged.rows) :
            LET r == merged.rows[i]
                outages == r["TotalResourceMWZoneSouth"] + r["TotalResourceMWZoneNorth"]
                               + r["TotalResourceMWZoneWest"] + r["TotalResourceMWZoneHouston"]
            IN  /\ r["Forecasted Thermal Reserve Margin"] =
                       (eactor_dhhrsr_value - outages)
                           - (r["Forecasted Demand"]
                                  - (r["Forecasted Wind Supply"] + r["Forecasted Solar Supply"]))
                /\ r["EACTOR_DHHRSR"] = eactor_dhhrsr_value
                /\ r["Dispatchable Supply"] = r["Forecasted Net Load"]
                /\ r["Forecasted Net Load"] =
                       r["Forecasted Demand"]
                           - (r["Forecasted Wind Supply"] + r["Forecasted Solar Supply"])
                /\ r["Forecasted Wind Supply"] \in
                       CellsFor(df_wind, "DELIVERY_DATE", "HOUR_ENDING", "COP_HSL_SYSTEM_WIDE", r)
                /\ r["Forecasted Solar Supply"] \in
                       CellsFor(df_solar, "DELIVERY_DATE", "HOUR_ENDING", "COP_HSL_SYSTEM_WIDE", r)
                /\ r["Forecasted Demand"] \in
                       CellsFor(df_sys, "DeliveryDate", "HOUR_ENDING", "SystemTotal", r)
                /\ \E j \in 1..Len(df_hroc.rows) :
                       /\ KeyAt(df_hroc, j, "Date", "HourEnding")
                              = <<r["DeliveryDate"], r["HOUR_ENDING"]>>
                       /\ \A z \in {"TotalResourceMWZoneSouth", "TotalResourceMWZoneNorth",
                                    "TotalResourceMWZoneWest", "TotalResourceMWZoneHouston"} :
                              df_hroc.rows[j][z] = r[z]

\* Two joined rows with negative demand, a zero capacity and a negative solar
\* supply on the first.
C10_Witness ==
    /\ phase = 1 /\ pc = "plot"
    /\ Len(merged.rows) = 2
    /\ eactor_dhhrsr_value = 0
    /\ merged.rows[1]["Forecasted Demand"] < 0
    /\ merged.rows[1]["Forecasted Solar Supply"] # merged.rows[1]["Forecasted Wind Supply"]
    /\ merged.rows[2]["Forecasted Thermal Reserve Margin"] # 0

(***************************************************************************)
(* DartSpread: the spread series of the DART panel                         *)
(***************************************************************************)
\* The timestamps at which a table lists the settlement point.
StampsOf(F, col, sp) ==
    {F.rows[k]["datetime"] : k \in {i \in 1..Len(F.rows) : F.rows[i][col] = sp}}

\* plot_dart has drawn the panel.
DartDrawn == phase = 2 /\ pc \in {"notify", "done"} /\ ~Empty(df_rtm_spp_yday)

\* C11: the spread has one entry per timestamp present in both the day-ahead
\* and the real-time series of the settlement point and no other entry; each
\* entry is a defined number, the day-ahead price minus the mean of the
\* real-time prices at that timestamp.
C11_SpreadOnSharedTimestamps ==
    DartDrawn =>
        LET dam == SelectRows(df_dam_spp_yday, "SettlementPoint", "LZ_NORTH")
            rtm == SelectRows(df_rtm_spp_yday, "settlementPoint", "LZ_NORTH")
            shared == StampsOf(df_dam_spp_yday, "SettlementPoint", "LZ_NORTH")
                          \cap StampsOf(df_rtm_spp_yday, "settlementPoint", "LZ_NORTH")
        IN  /\ Len(dart.spread) = Cardinality(shared)
            /\ \A i \in 1..Len(dart.spread) :
                  LET t == dart.dam[i].datetime
                  IN  /\ t \in shared
                      /\ ~dart.spread[i].nan
                      /\ dart.spread[i].num * CountAt(rtm, t) =
                            (SumAt(dam, "SettlementPointPrice", t, 1) * CountAt(rtm, t)
                                - SumAt(rtm, "settlementPointPrice", t, 1)) * dart.spread[i].den

\* What the code does keep: at a timestamp of both series the entry is
\* the day-ahead price minus the mean of the real-time prices.
DartSharedEntriesRight ==
    DartDrawn =>
        LET dam == SelectRows(df_dam_spp_yday, "SettlementPoint", "LZ_NORTH")
            rtm == SelectRows(df_rtm_spp_yday, "settlementPoint", "LZ_NORTH")
        IN  \A i \in 1..Len(dart.spread) :
               LET t == dart.dam[i].datetime
               IN  t \in StampsOf(df_dam_spp_yday, "SettlementPoint", "LZ_NORTH") =>
                      /\ ~dart.spread[i].nan
                      /\ dart.spread[i].num * CountAt(rtm, t) =
                            (SumAt(dam, "SettlementPointPrice", t, 1) * CountAt(rtm, t)
                                - SumAt(rtm, "settlementPointPrice", t, 1)) * dart.spread[i].den

(***************************************************************************)
(* ReportFetcher: the entries of a downloaded archive                      *)
(***************************************************************************)
\* C12: an archive with no entry or with more than one entry makes the fetch
\* fail, and no file of it is returned as the report or left for later use;
\* an archive with exactly one entry has that entry returned as the report.
C12_SingleEntryArchivesOnly ==
    \A i \in 1..Len(visits) :
        LET v == visits[i]
        IN  /\ (v.report # "mora" /\ v.entries = 0) =>
                  v.raised # "" /\ paths[v.report] = NoFile
            /\ v.entries > 1 =>
                  /\ v.raised # ""
                  /\ paths[v.report] = NoFile
                  /\ ExtractedFiles(v.report, v.entries) \cap production = {}
            /\ (v.entries = 1 /\ v.raised = "") => paths[v.report] = Extracted(v.report, 1)

\* What the code does keep: an archive without entries fails the fetch, and
\* the first entry of any other archive is the report.
ArchiveFirstEntryReturned ==
    \A i \in 1..Len(visits) :
        LET v == visits[i]
        IN  /\ (v.report # "mora" /\ v.entries = 0) =>
                  v.raised # "" /\ paths[v.report] = NoFile
            /\ v.entries >= 1 =>
                  /\ v.raised = ""
                  /\ paths[v.report] = Extracted(v.report, 1)
                  /\ ExtractedFiles(v.report, v.entries) \subseteq production

(***************************************************************************)
(* PagedApiClient: the column names of the real-time table                 *)
(***************************************************************************)
\* The real-time fetch has saved its table.
RtmSaved == phase = 2 /\ df_rtm_spp_yday_filename.saved

\* C13: the column names of the table a real-time fetch returns are the fields
\* the first page declared, whatever later pages declare or omit; only when the
\* first page declared none are they the keys of the rows.
C13_ColumnsFromFirstPage ==
    RtmSaved =>
        LET first == ServedBy("rtm")[1]
        IN  df_rtm_spp_yday_filename.columns =
                IF first.fields # <<>> THEN first.fields ELSE ApiFields

\* What the code does: the names are the fields the last page declared, or the
\* keys of the rows when the last page declared none.
ColumnsFromLastPage ==
    RtmSaved =>
        LET last == ServedBy("rtm")[Len(ServedBy("rtm"))]
        IN  df_rtm_spp_yday_filename.columns =
                IF last.fields # <<>> THEN last.fields ELSE ApiFields

(***************************************************************************)
(* The browser session of a run                                            *)
(***************************************************************************)
\* Nothing past the fetches has happened: no file parsed, no API request sent,
\* no artifact written, nothing notified.
NothingPastFetches ==
    /\ FrameIdle
    /\ df_dam_cpc_today = NoFrame /\ df_dam_cpc_yday = NoFrame
    /\ df_dam_spp_today = NoFrame /\ df_dam_spp_yday = NoFrame
    /\ df_rtm_spp_yday = NoFrame /\ df_api_dam_spp_yday = NoFrame
    /\ requests = <<>> /\ served = <<>>
    /\ df_rtm_spp_yday_filename = NotReturned /\ df_api_dam_spp_yday_filename = NotReturned
    /\ \A f \in production : f.kind # "artifact"
    /\ sheets = {} /\ dart = NoDart /\ slack = "none"

\* C14: in a run of either script that created the browser session, the session
\* is closed exactly once, after the last page fetch - the fetches all done or
\* one failed - and before any file is parsed, any API request is sent or any
\* artifact is written; every page fetch is made with the session open.
C14_SessionClosedOnceBeforeUse ==
    /\ quits <= 1
    /\ \A i \in 1..Len(visits) : visits[i].driver = "open"
    /\ driver = "none" => quits = 0 /\ visits = <<>>
    /\ (phase \in {1, 2} /\ driver = "open") =>
           pc \in {"fetch", "quit"} /\ quits = 0 /\ NothingPastFetches
    /\ (phase \in {1, 2} /\ driver # "none" /\ pc \notin {"fetch", "quit"}) =>
           driver = "closed" /\ quits = 1

\* A Phase 2 run whose second report page never shows its link: the run is
\* over with the session closed once, two pages visited, nothing else done.
C14_Witness ==
    /\ phase = 2 /\ pc = "aborted"
    /\ Len(visits) = 2 /\ visits[2].raised = "TimeoutException" /\ visits[2].driver = "open"
    /\ driver = "closed" /\ quits = 1
    /\ NothingPastFetches

====
